---------------------------- MODULE Spec2Model ----------------------------
(***************************************************************************)
(* A model of the four conversion scripts of AWSUtilities:                 *)
(*   createSRTfromTranscriptionFile.py, createVTTfromTranscriptionFile.py, *)
(*   createSSMLfromTranscriptionFile.py and createSSMLfromSRT.py.          *)
(*                                                                         *)
(* Text is modelled as a sequence of characters (one-character strings),   *)
(* a file as a sequence of lines.  Python floats are IEEE-754 doubles and  *)
(* are modelled exactly: a double is sign * mantissa * 2^exponent with the *)
(* mantissa a natural number held in limbs of 15 bits, and every float     *)
(* operation is the exact result rounded to 53 bits, ties to even.         *)
(* A time read from a transcript ("start_time": "1.25") is held as its     *)
(* number of milliseconds; float() of it is the division by 1000.          *)
(***************************************************************************)
EXTENDS Integers, Sequences, FiniteSets, TLC

\* ------------------------------------------------------------------------
\* Natural numbers of any size: little-endian limbs, no leading zero limb.
\* ------------------------------------------------------------------------
Base == 2^15

RECURSIVE BNorm(_)
BNorm(a) ==
    IF a = <<>> THEN <<>>
    ELSE IF a[Len(a)] = 0 THEN BNorm(SubSeq(a, 1, Len(a) - 1)) ELSE a

RECURSIVE BFromInt(_)
BFromInt(n) == IF n = 0 THEN <<>> ELSE <<n % Base>> \o BFromInt(n \div Base)

RECURSIVE BToInt(_)
BToInt(a) == IF a = <<>> THEN 0 ELSE a[1] + Base * BToInt(Tail(a))

RECURSIVE BAddC(_, _, _)
BAddC(a, b, carry) ==
    IF a = <<>> /\ b = <<>> THEN (IF carry = 0 THEN <<>> ELSE <<carry>>)
    ELSE LET x == IF a = <<>> THEN 0 ELSE a[1]
             y == IF b = <<>> THEN 0 ELSE b[1]
             s == x + y + carry
         IN  <<s % Base>> \o BAddC(IF a = <<>> THEN <<>> ELSE Tail(a),
                                   IF b = <<>> THEN <<>> ELSE Tail(b),
                                   s \div Base)
BAdd(a, b) == BAddC(a, b, 0)

\* a - b for a >= b
RECURSIVE BSubB(_, _, _)
BSubB(a, b, borrow) ==
    IF a = <<>> THEN <<>>
    ELSE LET y == IF b = <<>> THEN 0 ELSE b[1]
             d == a[1] - y - borrow
         IN  <<d % Base>> \o BSubB(Tail(a),
                                   IF b = <<>> THEN <<>> ELSE Tail(b),
                                   IF d < 0 THEN 1 ELSE 0)
BSub(a, b) == BNorm(BSubB(a, b, 0))

\* -1, 0, 1 as a < b, a = b, a > b (both normalised)
RECURSIVE BCmp(_, _)
BCmp(a, b) ==
    IF Len(a) # Len(b) THEN (IF Len(a) < Len(b) THEN -1 ELSE 1)
    ELSE IF a = <<>> THEN 0
    ELSE IF a[Len(a)] # b[Len(b)] THEN (IF a[Len(a)] < b[Len(b)] THEN -1 ELSE 1)
    ELSE BCmp(SubSeq(a, 1, Len(a) - 1), SubSeq(b, 1, Len(b) - 1))

\* a * c for one limb c
RECURSIVE BMulSmallC(_, _, _)
BMulSmallC(a, c, carry) ==
    IF a = <<>> THEN (IF carry = 0 THEN <<>> ELSE <<carry>>)
    ELSE LET p == a[1] * c + carry
         IN  <<p % Base>> \o BMulSmallC(Tail(a), c, p \div Base)
BMulSmall(a, c) == BNorm(BMulSmallC(a, c, 0))

RECURSIVE BMul(_, _)
BMul(a, b) ==
    IF b = <<>> \/ a = <<>> THEN <<>>
    ELSE BAdd(BMulSmall(a, b[1]), BNorm(<<0>> \o BMul(a, Tail(b))))

\* quotient and remainder of a by d, 1 <= d <= Base
RECURSIVE BDivSmallQR(_, _)
BDivSmallQR(a, d) ==
    IF a = <<>> THEN [q |-> <<>>, r |-> 0]
    ELSE LET hi  == BDivSmallQR(Tail(a), d)
             cur == hi.r * Base + a[1]
         IN  [q |-> <<cur \div d>> \o hi.q, r |-> cur % d]
BDivSmall(a, d) == BNorm(BDivSmallQR(a, d).q)

Zeros(n) == [i \in 1..n |-> 0]

\* a * 2^n
BShl(a, n) ==
    IF a = <<>> THEN <<>>
    ELSE Zeros(n \div 15) \o BMulSmall(a, 2^(n % 15))

\* floor(a / 2^n)
BShr(a, n) ==
    IF Len(a) <= n \div 15 THEN <<>>
    ELSE BDivSmall(SubSeq(a, (n \div 15) + 1, Len(a)), 2^(n % 15))

RECURSIVE BitLen(_)
BitLen(n) == IF n = 0 THEN 0 ELSE 1 + BitLen(n \div 2)

BBitLen(a) == IF a = <<>> THEN 0 ELSE 15 * (Len(a) - 1) + BitLen(a[Len(a)])

BIsOdd(a) == a # <<>> /\ a[1] % 2 = 1

\* q or q + 1 as the remainder compares with the half (c): ties to even
RoundQuotient(q, c) == IF c > 0 \/ (c = 0 /\ BIsOdd(q)) THEN BAdd(q, <<1>>) ELSE q

\* the quotient q = floor(a / 2^n) rounded by its remainder a - q * 2^n
RoundByRemainder(a, n, q) ==
    RoundQuotient(q, BCmp(BSub(a, BShl(q, n)), BShl(<<1>>, n - 1)))

\* a / 2^n rounded to the nearest natural, ties to the even one
BShrRound(a, n) == IF n = 0 THEN a ELSE RoundByRemainder(a, n, BShr(a, n))

\* ------------------------------------------------------------------------
\* IEEE-754 doubles: [s, m, e] is s * m * 2^e, s in {1, -1}.
\* ------------------------------------------------------------------------
MantissaBits == 53

\* the exact value m * 2^e rounded to a double
RoundToBits(m, e, bl) ==
    IF bl <= MantissaBits THEN [m |-> m, e |-> e]
    ELSE [m |-> BShrRound(m, bl - MantissaBits), e |-> e + (bl - MantissaBits)]

Round53(m, e) == RoundToBits(m, e, BBitLen(m))

\* the double of sign s and rounded magnitude r
Signed(s, r) == [s |-> s, m |-> r.m, e |-> r.e]

FZero == [s |-> 1, m |-> <<>>, e |-> 0]

\* float(n) for an integer n
FInt(n) == IF n < 0 THEN [s |-> -1, m |-> BFromInt(-n), e |-> 0]
                    ELSE [s |-> 1, m |-> BFromInt(n), e |-> 0]

\* num / (d * 2^t) correctly rounded, for naturals num and 1 <= d <= Base:
\* the quotient to 55 bits or more, its remainder kept as a sticky bit.
WithSticky(qr) == BAdd(BShl(BNorm(qr.q), 1), IF qr.r = 0 THEN <<>> ELSE <<1>>)

DivShifted(num, d, t, k) ==
    Signed(1, Round53(WithSticky(BDivSmallQR(BShl(BFromInt(num), k), d)), 0 - k - 1 - t))

FDivNat(num, d, t) ==
    IF num = 0 THEN FZero ELSE DivShifted(num, d, t, MantissaBits + 2 + BitLen(d))

FNeg(a) == [s |-> 0 - a.s, m |-> a.m, e |-> a.e]

\* sa * x + sb * y for magnitudes x, y in units of 2^e, c their comparison
AddAligned(sa, x, sb, y, e, c) ==
    IF sa # sb /\ c = 0 THEN FZero
    ELSE Signed(IF sa = sb \/ c > 0 THEN sa ELSE sb,
                Round53(IF sa = sb THEN BAdd(x, y)
                        ELSE IF c > 0 THEN BSub(x, y) ELSE BSub(y, x), e))

AddAt(a, b, e, x, y) == AddAligned(a.s, x, b.s, y, e, BCmp(x, y))

AddFrom(a, b, e) == AddAt(a, b, e, BShl(a.m, a.e - e), BShl(b.m, b.e - e))

FAdd(a, b) == AddFrom(a, b, IF a.e < b.e THEN a.e ELSE b.e)

FSub(a, b) == FAdd(a, FNeg(b))

FMul(a, b) == Signed(a.s * b.s, Round53(BMul(a.m, b.m), a.e + b.e))

\* x % 1 for a double x >= 0: the fractional part, exact
FMod1(a) ==
    IF a.e >= 0 THEN FZero
    ELSE [s |-> 1, m |-> BSub(a.m, BShl(BShr(a.m, 0 - a.e), 0 - a.e)), e |-> a.e]

\* int(x) for a double x >= 0: truncation
FTrunc(a) == IF a.e >= 0 THEN BToInt(BShl(a.m, a.e)) ELSE BToInt(BShr(a.m, 0 - a.e))

\* ------------------------------------------------------------------------
\* Text: a string is a sequence of characters.
\* ------------------------------------------------------------------------
Digits == <<"0", "1", "2", "3", "4", "5", "6", "7", "8", "9">>
AsciiDigit == {Digits[i] : i \in 1..10}
DigitVal(ch) == (CHOOSE i \in 1..10 : Digits[i] = ch) - 1

RECURSIVE DecDigits(_)
DecDigits(n) ==
    IF n < 10 THEN <<Digits[n + 1]>>
    ELSE DecDigits(n \div 10) \o <<Digits[(n % 10) + 1]>>

RECURSIVE PadZero(_, _)
PadZero(s, w) == IF Len(s) >= w THEN s ELSE PadZero(<<"0">> \o s, w)

\* "%0<w>d" % n, n >= 0
FmtD(n, w) == PadZero(DecDigits(n), w)

RECURSIVE DecValue(_)
DecValue(s) == IF s = <<>> THEN 0 ELSE 10 * DecValue(SubSeq(s, 1, Len(s) - 1)) + DigitVal(s[Len(s)])

AllDigits(s) == \A i \in 1..Len(s) : s[i] \in AsciiDigit

\* the index of the first ch in s at or after position from, 0 when there is none
RECURSIVE IndexFrom(_, _, _)
IndexFrom(s, ch, from) ==
    IF from > Len(s) THEN 0
    ELSE IF s[from] = ch THEN from ELSE IndexFrom(s, ch, from + 1)

\* ------------------------------------------------------------------------
\* newPhrase, getTimeCode
\* ------------------------------------------------------------------------
newPhrase == [start_time |-> <<>>, end_time |-> <<>>, words |-> <<>>]

\* float("<ms/1000>"): the double nearest to a decimal number of seconds
FloatOfMillis(ms) == FDivNat(ms, 125, 3)

\* t_hund = int(seconds % 1 * 1000)
THund(seconds) == FTrunc(FMul(FMod1(seconds), FInt(1000)))

\* int(t_secs) and t_mins from the quotient float(t_seconds) / 60
MinsSecs(quotient) ==
    [mins |-> FTrunc(quotient), secs |-> FTrunc(FMul(FMod1(quotient), FInt(60)))]

\* t_seconds = int(seconds), then t_secs and t_mins
TMinsSecs(seconds) == MinsSecs(FDivNat(FTrunc(seconds), 15, 2))

\* "%02d:%02d:%02d<sep>%03d" % (00, t_mins, int(t_secs), t_hund)
TimeCodeText(ms, t_hund, sep) ==
    FmtD(0, 2) \o <<":">> \o FmtD(ms.mins, 2) \o <<":">> \o FmtD(ms.secs, 2)
        \o <<sep>> \o FmtD(t_hund, 3)

\* getTimeCode of the SRT and the SSML script
getTimeCode(seconds) == TimeCodeText(TMinsSecs(seconds), THund(seconds), ",")

\* getTimeCode of the VTT script
getTimeCodeVTT(seconds) == TimeCodeText(TMinsSecs(seconds), THund(seconds), ".")

\* ------------------------------------------------------------------------
\* datetime.strptime(text, '%H:%M:%S,%f') and the seconds computed from it
\* ------------------------------------------------------------------------
StrptimeFail == [ok |-> FALSE, hour |-> 0, minute |-> 0, second |-> 0, microsecond |-> 0]

\* the characters \d matches and int() reads, by value: DecimalChars[v + 1]
\* holds the decimal digits of value v of every script; a character outside
\* ASCII is one element named by its code point
DecimalChars ==
    << {"0", "U+0660", "U+06F0", "U+07C0", "U+0966", "U+09E6", "U+0A66", "U+0AE6",
        "U+0B66", "U+0BE6", "U+0C66", "U+0CE6", "U+0D66", "U+0DE6", "U+0E50", "U+0ED0",
        "U+0F20", "U+1040", "U+1090", "U+17E0", "U+1810", "U+1946", "U+19D0", "U+1A80",
        "U+1A90", "U+1B50", "U+1BB0", "U+1C40", "U+1C50", "U+A620", "U+A8D0", "U+A900",
        "U+A9D0", "U+A9F0", "U+AA50", "U+ABF0", "U+FF10", "U+104A0", "U+10D30", "U+11066",
        "U+110F0", "U+11136", "U+111D0", "U+112F0", "U+11450", "U+114D0", "U+11650", "U+116C0",
        "U+11730", "U+118E0", "U+11950", "U+11C50", "U+11D50", "U+11DA0", "U+16A60", "U+16AC0",
        "U+16B50", "U+1D7CE", "U+1D7D8", "U+1D7E2", "U+1D7EC", "U+1D7F6", "U+1E140", "U+1E2F0",
        "U+1E950", "U+1FBF0"},
       {"1", "U+0661", "U+06F1", "U+07C1", "U+0967", "U+09E7", "U+0A67", "U+0AE7",
        "U+0B67", "U+0BE7", "U+0C67", "U+0CE7", "U+0D67", "U+0DE7", "U+0E51", "U+0ED1",
        "U+0F21", "U+1041", "U+1091", "U+17E1", "U+1811", "U+1947", "U+19D1", "U+1A81",
        "U+1A91", "U+1B51", "U+1BB1", "U+1C41", "U+1C51", "U+A621", "U+A8D1", "U+A901",
        "U+A9D1", "U+A9F1", "U+AA51", "U+ABF1", "U+FF11", "U+104A1", "U+10D31", "U+11067",
        "U+110F1", "U+11137", "U+111D1", "U+112F1", "U+11451", "U+114D1", "U+11651", "U+116C1",
        "U+11731", "U+118E1", "U+11951", "U+11C51", "U+11D51", "U+11DA1", "U+16A61", "U+16AC1",
        "U+16B51", "U+1D7CF", "U+1D7D9", "U+1D7E3", "U+1D7ED", "U+1D7F7", "U+1E141", "U+1E2F1",
        "U+1E951", "U+1FBF1"},
       {"2", "U+0662", "U+06F2", "U+07C2", "U+0968", "U+09E8", "U+0A68", "U+0AE8",
        "U+0B68", "U+0BE8", "U+0C68", "U+0CE8", "U+0D68", "U+0DE8", "U+0E52", "U+0ED2",
        "U+0F22", "U+1042", "U+1092", "U+17E2", "U+1812", "U+1948", "U+19D2", "U+1A82",
        "U+1A92", "U+1B52", "U+1BB2", "U+1C42", "U+1C52", "U+A622", "U+A8D2", "U+A902",
        "U+A9D2", "U+A9F2", "U+AA52", "U+ABF2", "U+FF12", "U+104A2", "U+10D32", "U+11068",
        "U+110F2", "U+11138", "U+111D2", "U+112F2", "U+11452", "U+114D2", "U+11652", "U+116C2",
        "U+11732", "U+118E2", "U+11952", "U+11C52", "U+11D52", "U+11DA2", "U+16A62", "U+16AC2",
        "U+16B52", "U+1D7D0", "U+1D7DA", "U+1D7E4", "U+1D7EE", "U+1D7F8", "U+1E142", "U+1E2F2",
        "U+1E952", "U+1FBF2"},
       {"3", "U+0663", "U+06F3", "U+07C3", "U+0969", "U+09E9", "U+0A69", "U+0AE9",
        "U+0B69", "U+0BE9", "U+0C69", "U+0CE9", "U+0D69", "U+0DE9", "U+0E53", "U+0ED3",
        "U+0F23", "U+1043", "U+1093", "U+17E3", "U+1813", "U+1949", "U+19D3", "U+1A83",
        "U+1A93", "U+1B53", "U+1BB3", "U+1C43", "U+1C53", "U+A623", "U+A8D3", "U+A903",
        "U+A9D3", "U+A9F3", "U+AA53", "U+ABF3", "U+FF13", "U+104A3", "U+10D33", "U+11069",
        "U+110F3", "U+11139", "U+111D3", "U+112F3", "U+11453", "U+114D3", "U+11653", "U+116C3",
        "U+11733", "U+118E3", "U+11953", "U+11C53", "U+11D53", "U+11DA3", "U+16A63", "U+16AC3",
        "U+16B53", "U+1D7D1", "U+1D7DB", "U+1D7E5", "U+1D7EF", "U+1D7F9", "U+1E143", "U+1E2F3",
        "U+1E953", "U+1FBF3"},
       {"4", "U+0664", "U+06F4", "U+07C4", "U+096A", "U+09EA", "U+0A6A", "U+0AEA",
        "U+0B6A", "U+0BEA", "U+0C6A", "U+0CEA", "U+0D6A", "U+0DEA", "U+0E54", "U+0ED4",
        "U+0F24", "U+1044", "U+1094", "U+17E4", "U+1814", "U+194A", "U+19D4", "U+1A84",
        "U+1A94", "U+1B54", "U+1BB4", "U+1C44", "U+1C54", "U+A624", "U+A8D4", "U+A904",
        "U+A9D4", "U+A9F4", "U+AA54", "U+ABF4", "U+FF14", "U+104A4", "U+10D34", "U+1106A",
        "U+110F4", "U+1113A", "U+111D4", "U+112F4", "U+11454", "U+114D4", "U+11654", "U+116C4",
        "U+11734", "U+118E4", "U+11954", "U+11C54", "U+11D54", "U+11DA4", "U+16A64", "U+16AC4",
        "U+16B54", "U+1D7D2", "U+1D7DC", "U+1D7E6", "U+1D7F0", "U+1D7FA", "U+1E144", "U+1E2F4",
        "U+1E954", "U+1FBF4"},
       {"5", "U+0665", "U+06F5", "U+07C5", "U+096B", "U+09EB", "U+0A6B", "U+0AEB",
        "U+0B6B", "U+0BEB", "U+0C6B", "U+0CEB", "U+0D6B", "U+0DEB", "U+0E55", "U+0ED5",
        "U+0F25", "U+1045", "U+1095", "U+17E5", "U+1815", "U+194B", "U+19D5", "U+1A85",
        "U+1A95", "U+1B55", "U+1BB5", "U+1C45", "U+1C55", "U+A625", "U+A8D5", "U+A905",
        "U+A9D5", "U+A9F5", "U+AA55", "U+ABF5", "U+FF15", "U+104A5", "U+10D35", "U+1106B",
        "U+110F5", "U+1113B", "U+111D5", "U+112F5", "U+11455", "U+114D5", "U+11655", "U+116C5",
        "U+11735", "U+118E5", "U+11955", "U+11C55", "U+11D55", "U+11DA5", "U+16A65", "U+16AC5",
        "U+16B55", "U+1D7D3", "U+1D7DD", "U+1D7E7", "U+1D7F1", "U+1D7FB", "U+1E145", "U+1E2F5",
        "U+1E955", "U+1FBF5"},
       {"6", "U+0666", "U+06F6", "U+07C6", "U+096C", "U+09EC", "U+0A6C", "U+0AEC",
        "U+0B6C", "U+0BEC", "U+0C6C", "U+0CEC", "U+0D6C", "U+0DEC", "U+0E56", "U+0ED6",
        "U+0F26", "U+1046", "U+1096", "U+17E6", "U+1816", "U+194C", "U+19D6", "U+1A86",
        "U+1A96", "U+1B56", "U+1BB6", "U+1C46", "U+1C56", "U+A626", "U+A8D6", "U+A906",
        "U+A9D6", "U+A9F6", "U+AA56", "U+ABF6", "U+FF16", "U+104A6", "U+10D36", "U+1106C",
        "U+110F6", "U+1113C", "U+111D6", "U+112F6", "U+11456", "U+114D6", "U+11656", "U+116C6",
        "U+11736", "U+118E6", "U+11956", "U+11C56", "U+11D56", "U+11DA6", "U+16A66", "U+16AC6",
        "U+16B56", "U+1D7D4", "U+1D7DE", "U+1D7E8", "U+1D7F2", "U+1D7FC", "U+1E146", "U+1E2F6",
        "U+1E956", "U+1FBF6"},
       {"7", "U+0667", "U+06F7", "U+07C7", "U+096D", "U+09ED", "U+0A6D", "U+0AED",
        "U+0B6D", "U+0BED", "U+0C6D", "U+0CED", "U+0D6D", "U+0DED", "U+0E57", "U+0ED7",
        "U+0F27", "U+1047", "U+1097", "U+17E7", "U+1817", "U+194D", "U+19D7", "U+1A87",
        "U+1A97", "U+1B57", "U+1BB7", "U+1C47", "U+1C57", "U+A627", "U+A8D7", "U+A907",
        "U+A9D7", "U+A9F7", "U+AA57", "U+ABF7", "U+FF17", "U+104A7", "U+10D37", "U+1106D",
        "U+110F7", "U+1113D", "U+111D7", "U+112F7", "U+11457", "U+114D7", "U+11657", "U+116C7",
        "U+11737", "U+118E7", "U+11957", "U+11C57", "U+11D57", "U+11DA7", "U+16A67", "U+16AC7",
        "U+16B57", "U+1D7D5", "U+1D7DF", "U+1D7E9", "U+1D7F3", "U+1D7FD", "U+1E147", "U+1E2F7",
        "U+1E957", "U+1FBF7"},
       {"8", "U+0668", "U+06F8", "U+07C8", "U+096E", "U+09EE", "U+0A6E", "U+0AEE",
        "U+0B6E", "U+0BEE", "U+0C6E", "U+0CEE", "U+0D6E", "U+0DEE", "U+0E58", "U+0ED8",
        "U+0F28", "U+1048", "U+1098", "U+17E8", "U+1818", "U+194E", "U+19D8", "U+1A88",
        "U+1A98", "U+1B58", "U+1BB8", "U+1C48", "U+1C58", "U+A628", "U+A8D8", "U+A908",
        "U+A9D8", "U+A9F8", "U+AA58", "U+ABF8", "U+FF18", "U+104A8", "U+10D38", "U+1106E",
        "U+110F8", "U+1113E", "U+111D8", "U+112F8", "U+11458", "U+114D8", "U+11658", "U+116C8",
        "U+11738", "U+118E8", "U+11958", "U+11C58", "U+11D58", "U+11DA8", "U+16A68", "U+16AC8",
        "U+16B58", "U+1D7D6", "U+1D7E0", "U+1D7EA", "U+1D7F4", "U+1D7FE", "U+1E148", "U+1E2F8",
        "U+1E958", "U+1FBF8"},
       {"9", "U+0669", "U+06F9", "U+07C9", "U+096F", "U+09EF", "U+0A6F", "U+0AEF",
        "U+0B6F", "U+0BEF", "U+0C6F", "U+0CEF", "U+0D6F", "U+0DEF", "U+0E59", "U+0ED9",
        "U+0F29", "U+1049", "U+1099", "U+17E9", "U+1819", "U+194F", "U+19D9", "U+1A89",
        "U+1A99", "U+1B59", "U+1BB9", "U+1C49", "U+1C59", "U+A629", "U+A8D9", "U+A909",
        "U+A9D9", "U+A9F9", "U+AA59", "U+ABF9", "U+FF19", "U+104A9", "U+10D39", "U+1106F",
        "U+110F9", "U+1113F", "U+111D9", "U+112F9", "U+11459", "U+114D9", "U+11659", "U+116C9",
        "U+11739", "U+118E9", "U+11959", "U+11C59", "U+11D59", "U+11DA9", "U+16A69", "U+16AC9",
        "U+16B59", "U+1D7D7", "U+1D7E1", "U+1D7EB", "U+1D7F5", "U+1D7FF", "U+1E149", "U+1E2F9",
        "U+1E959", "U+1FBF9"} >>

IsDecimal(ch) == \E i \in 1..10 : ch \in DecimalChars[i]

\* int(ch) of one decimal digit
DecimalVal(ch) == (CHOOSE i \in 1..10 : ch \in DecimalChars[i]) - 1

\* the regular expressions of %H (max 23) and of %M, %S (max 59) on a whole
\* field: one \d, or an ASCII tens digit up to 1 (up to 5) and one \d, or
\* for %H the ASCII "2" and an ASCII digit up to 3; a second of 60 or 61
\* matches and is then refused
FieldOk(s, max) ==
    \/ Len(s) = 1 /\ IsDecimal(s[1])
    \/ /\ Len(s) = 2
       /\ s[1] \in AsciiDigit
       /\ IsDecimal(s[2])
       /\ \/ DigitVal(s[1]) <= (IF max = 23 THEN 1 ELSE 5)
          \/ max = 23 /\ s[1] = "2" /\ s[2] \in {"0", "1", "2", "3"}

\* int() of a field of decimal digits
RECURSIVE FieldValue(_)
FieldValue(s) ==
    IF s = <<>> THEN 0
    ELSE 10 * FieldValue(SubSeq(s, 1, Len(s) - 1)) + DecimalVal(s[Len(s)])

strptime(text) ==
    LET p1 == IndexFrom(text, ":", 1)
        p2 == IF p1 = 0 THEN 0 ELSE IndexFrom(text, ":", p1 + 1)
        p3 == IF p2 = 0 THEN 0 ELSE IndexFrom(text, ",", p2 + 1)
    IN  IF p3 = 0 THEN StrptimeFail
        ELSE LET h == SubSeq(text, 1, p1 - 1)
                 m == SubSeq(text, p1 + 1, p2 - 1)
                 s == SubSeq(text, p2 + 1, p3 - 1)
                 f == SubSeq(text, p3 + 1, Len(text))
             IN  IF /\ FieldOk(h, 23) /\ FieldOk(m, 59) /\ FieldOk(s, 59)
                    /\ Len(f) \in 1..6 /\ AllDigits(f)
                 THEN [ok |-> TRUE, hour |-> FieldValue(h), minute |-> FieldValue(m),
                       second |-> FieldValue(s),
                       microsecond |-> DecValue(f) * 10^(6 - Len(f))]
                 ELSE StrptimeFail

\* float( (t.microsecond/1000000 + t.second) + t.minute*60 + t.hour*3600 )
TimeSeconds(t) ==
    FAdd(FAdd(FAdd(FDivNat(t.microsecond, 15625, 6), FInt(t.second)),
              FInt(t.minute * 60)),
         FInt(t.hour * 3600))

\* float(args.pcttimepad) for a pad factor given in thousandths
PadFloat(padm) == FDivNat(padm, 125, 3)

\* (endingtimeseconds - starttimeseconds) * float(args.pcttimepad)
TotalSeconds(tstart, tend, padm) ==
    FMul(FSub(TimeSeconds(tend), TimeSeconds(tstart)), PadFloat(padm))

\* m100 * 2^e rounded to the nearest natural, ties to even
ScaledRound(m100, e) ==
    IF e >= 0 THEN BToInt(BShl(m100, e)) ELSE BToInt(BShrRound(m100, 0 - e))

\* the number of hundredths nearest to |x|: the digits of "%3.2f" % x
Hundredths(x) == ScaledRound(BMulSmall(x.m, 100), x.e)

SignedHundredths(s, h) ==
    (IF s < 0 THEN <<"-">> ELSE <<>>) \o DecDigits(h \div 100) \o <<".">> \o FmtD(h % 100, 2)

\* "%3.2f" % x
Fmt2f(x) == SignedHundredths(x.s, Hundredths(x))

\* ------------------------------------------------------------------------
\* Characters the scripts tell apart
\* ------------------------------------------------------------------------
AsciiLetter ==
    {"a", "b", "c", "d", "e", "f", "g", "h", "i", "j", "k", "l", "m", "n", "o", "p", "q", "r", "s", "t", "u", "v", "w", "x", "y", "z",
     "A", "B", "C", "D", "E", "F", "G", "H", "I", "J", "K", "L", "M", "N", "O", "P", "Q", "R", "S", "T", "U", "V", "W", "X", "Y", "Z"}

\* re.match('[a-zA-Z0-9]', word): the first character of word is in the class
MatchesAlnum(word) == word # <<>> /\ word[1] \in AsciiLetter \cup AsciiDigit

\* the characters with a numeric value that are no decimal digits:
\* fractions, superscripts, circled and Roman numerals, CJK numerals such
\* as "U+4E09" (three), all outside [a-zA-Z0-9]
NumericNotDecimal ==
    {"U+00B2", "U+00B3", "U+00B9", "U+00BC", "U+00BD", "U+00BE", "U+09F4", "U+09F5",
     "U+09F6", "U+09F7", "U+09F8", "U+09F9", "U+0B72", "U+0B73", "U+0B74", "U+0B75",
     "U+0B76", "U+0B77", "U+0BF0", "U+0BF1", "U+0BF2", "U+0C78", "U+0C79", "U+0C7A",
     "U+0C7B", "U+0C7C", "U+0C7D", "U+0C7E", "U+0D58", "U+0D59", "U+0D5A", "U+0D5B",
     "U+0D5C", "U+0D5D", "U+0D5E", "U+0D70", "U+0D71", "U+0D72", "U+0D73", "U+0D74",
     "U+0D75", "U+0D76", "U+0D77", "U+0D78", "U+0F2A", "U+0F2B", "U+0F2C", "U+0F2D",
     "U+0F2E", "U+0F2F", "U+0F30", "U+0F31", "U+0F32", "U+0F33", "U+1369", "U+136A",
     "U+136B", "U+136C", "U+136D", "U+136E", "U+136F", "U+1370", "U+1371", "U+1372",
     "U+1373", "U+1374", "U+1375", "U+1376", "U+1377", "U+1378", "U+1379", "U+137A",
     "U+137B", "U+137C", "U+16EE", "U+16EF", "U+16F0", "U+17F0", "U+17F1", "U+17F2",
     "U+17F3", "U+17F4", "U+17F5", "U+17F6", "U+17F7", "U+17F8", "U+17F9", "U+19DA",
     "U+2070", "U+2074", "U+2075", "U+2076", "U+2077", "U+2078", "U+2079", "U+2080",
     "U+2081", "U+2082", "U+2083", "U+2084", "U+2085", "U+2086", "U+2087", "U+2088",
     "U+2089", "U+2150", "U+2151", "U+2152", "U+2153", "U+2154", "U+2155", "U+2156",
     "U+2157", "U+2158", "U+2159", "U+215A", "U+215B", "U+215C", "U+215D", "U+215E",
     "U+215F", "U+2160", "U+2161", "U+2162", "U+2163", "U+2164", "U+2165", "U+2166",
     "U+2167", "U+2168", "U+2169", "U+216A", "U+216B", "U+216C", "U+216D", "U+216E",
     "U+216F", "U+2170", "U+2171", "U+2172", "U+2173", "U+2174", "U+2175", "U+2176",
     "U+2177", "U+2178", "U+2179", "U+217A", "U+217B", "U+217C", "U+217D", "U+217E",
     "U+217F", "U+2180", "U+2181", "U+2182", "U+2185", "U+2186", "U+2187", "U+2188",
     "U+2189", "U+2460", "U+2461", "U+2462", "U+2463", "U+2464", "U+2465", "U+2466",
     "U+2467", "U+2468", "U+2469", "U+246A", "U+246B", "U+246C", "U+246D", "U+246E",
     "U+246F", "U+2470", "U+2471", "U+2472", "U+2473", "U+2474", "U+2475", "U+2476",
     "U+2477", "U+2478", "U+2479", "U+247A", "U+247B", "U+247C", "U+247D", "U+247E",
     "U+247F", "U+2480", "U+2481", "U+2482", "U+2483", "U+2484", "U+2485", "U+2486",
     "U+2487", "U+2488", "U+2489", "U+248A", "U+248B", "U+248C", "U+248D", "U+248E",
     "U+248F", "U+2490", "U+2491", "U+2492", "U+2493", "U+2494", "U+2495", "U+2496",
     "U+2497", "U+2498", "U+2499", "U+249A", "U+249B", "U+24EA", "U+24EB", "U+24EC",
     "U+24ED", "U+24EE", "U+24EF", "U+24F0", "U+24F1", "U+24F2", "U+24F3", "U+24F4",
     "U+24F5", "U+24F6", "U+24F7", "U+24F8", "U+24F9", "U+24FA", "U+24FB", "U+24FC",
     "U+24FD", "U+24FE", "U+24FF", "U+2776", "U+2777", "U+2778", "U+2779", "U+277A",
     "U+277B", "U+277C", "U+277D", "U+277E", "U+277F", "U+2780", "U+2781", "U+2782",
     "U+2783", "U+2784", "U+2785", "U+2786", "U+2787", "U+2788", "U+2789", "U+278A",
     "U+278B", "U+278C", "U+278D", "U+278E", "U+278F", "U+2790", "U+2791", "U+2792",
     "U+2793", "U+2CFD", "U+3007", "U+3021", "U+3022", "U+3023", "U+3024", "U+3025",
     "U+3026", "U+3027", "U+3028", "U+3029", "U+3038", "U+3039", "U+303A", "U+3192",
     "U+3193", "U+3194", "U+3195", "U+3220", "U+3221", "U+3222", "U+3223", "U+3224",
     "U+3225", "U+3226", "U+3227", "U+3228", "U+3229", "U+3248", "U+3249", "U+324A",
     "U+324B", "U+324C", "U+324D", "U+324E", "U+324F", "U+3251", "U+3252", "U+3253",
     "U+3254", "U+3255", "U+3256", "U+3257", "U+3258", "U+3259", "U+325A", "U+325B",
     "U+325C", "U+325D", "U+325E", "U+325F", "U+3280", "U+3281", "U+3282", "U+3283",
     "U+3284", "U+3285", "U+3286", "U+3287", "U+3288", "U+3289", "U+32B1", "U+32B2",
     "U+32B3", "U+32B4", "U+32B5", "U+32B6", "U+32B7", "U+32B8", "U+32B9", "U+32BA",
     "U+32BB", "U+32BC", "U+32BD", "U+32BE", "U+32BF", "U+3405", "U+3483", "U+382A",
     "U+3B4D", "U+4E00", "U+4E03", "U+4E07", "U+4E09", "U+4E5D", "U+4E8C", "U+4E94",
     "U+4E96", "U+4EBF", "U+4EC0", "U+4EDF", "U+4EE8", "U+4F0D", "U+4F70", "U+5104",
     "U+5146", "U+5169", "U+516B", "U+516D", "U+5341", "U+5343", "U+5344", "U+5345",
     "U+534C", "U+53C1", "U+53C2", "U+53C3", "U+53C4", "U+56DB", "U+58F1", "U+58F9",
     "U+5E7A", "U+5EFE", "U+5EFF", "U+5F0C", "U+5F0D", "U+5F0E", "U+5F10", "U+62FE",
     "U+634C", "U+67D2", "U+6F06", "U+7396", "U+767E", "U+8086", "U+842C", "U+8CAE",
     "U+8CB3", "U+8D30", "U+9621", "U+9646", "U+964C", "U+9678", "U+96F6", "U+A6E6",
     "U+A6E7", "U+A6E8", "U+A6E9", "U+A6EA", "U+A6EB", "U+A6EC", "U+A6ED", "U+A6EE",
     "U+A6EF", "U+A830", "U+A831", "U+A832", "U+A833", "U+A834", "U+A835", "U+F96B",
     "U+F973", "U+F978", "U+F9B2", "U+F9D1", "U+F9D3", "U+F9FD", "U+10107", "U+10108",
     "U+10109", "U+1010A", "U+1010B", "U+1010C", "U+1010D", "U+1010E", "U+1010F", "U+10110",
     "U+10111", "U+10112", "U+10113", "U+10114", "U+10115", "U+10116", "U+10117", "U+10118",
     "U+10119", "U+1011A", "U+1011B", "U+1011C", "U+1011D", "U+1011E", "U+1011F", "U+10120",
     "U+10121", "U+10122", "U+10123", "U+10124", "U+10125", "U+10126", "U+10127", "U+10128",
     "U+10129", "U+1012A", "U+1012B", "U+1012C", "U+1012D", "U+1012E", "U+1012F", "U+10130",
     "U+10131", "U+10132", "U+10133", "U+10140", "U+10141", "U+10142", "U+10143", "U+10144",
     "U+10145", "U+10146", "U+10147", "U+10148", "U+10149", "U+1014A", "U+1014B", "U+1014C",
     "U+1014D", "U+1014E", "U+1014F", "U+10150", "U+10151", "U+10152", "U+10153", "U+10154",
     "U+10155", "U+10156", "U+10157", "U+10158", "U+10159", "U+1015A", "U+1015B", "U+1015C",
     "U+1015D", "U+1015E", "U+1015F", "U+10160", "U+10161", "U+10162", "U+10163", "U+10164",
     "U+10165", "U+10166", "U+10167", "U+10168", "U+10169", "U+1016A", "U+1016B", "U+1016C",
     "U+1016D", "U+1016E", "U+1016F", "U+10170", "U+10171", "U+10172", "U+10173", "U+10174",
     "U+10175", "U+10176", "U+10177", "U+10178", "U+1018A", "U+1018B", "U+102E1", "U+102E2",
     "U+102E3", "U+102E4", "U+102E5", "U+102E6", "U+102E7", "U+102E8", "U+102E9", "U+102EA",
     "U+102EB", "U+102EC", "U+102ED", "U+102EE", "U+102EF", "U+102F0", "U+102F1", "U+102F2",
     "U+102F3", "U+102F4", "U+102F5", "U+102F6", "U+102F7", "U+102F8", "U+102F9", "U+102FA",
     "U+102FB", "U+10320", "U+10321", "U+10322", "U+10323", "U+10341", "U+1034A", "U+103D1",
     "U+103D2", "U+103D3", "U+103D4", "U+103D5", "U+10858", "U+10859", "U+1085A", "U+1085B",
     "U+1085C", "U+1085D", "U+1085E", "U+1085F", "U+10879", "U+1087A", "U+1087B", "U+1087C",
     "U+1087D", "U+1087E", "U+1087F", "U+108A7", "U+108A8", "U+108A9", "U+108AA", "U+108AB",
     "U+108AC", "U+108AD", "U+108AE", "U+108AF", "U+108FB", "U+108FC", "U+108FD", "U+108FE",
     "U+108FF", "U+10916", "U+10917", "U+10918", "U+10919", "U+1091A", "U+1091B", "U+109BC",
     "U+109BD", "U+109C0", "U+109C1", "U+109C2", "U+109C3", "U+109C4", "U+109C5", "U+109C6",
     "U+109C7", "U+109C8", "U+109C9", "U+109CA", "U+109CB", "U+109CC", "U+109CD", "U+109CE",
     "U+109CF", "U+109D2", "U+109D3", "U+109D4", "U+109D5", "U+109D6", "U+109D7", "U+109D8",
     "U+109D9", "U+109DA", "U+109DB", "U+109DC", "U+109DD", "U+109DE", "U+109DF", "U+109E0",
     "U+109E1", "U+109E2", "U+109E3", "U+109E4", "U+109E5", "U+109E6", "U+109E7", "U+109E8",
     "U+109E9", "U+109EA", "U+109EB", "U+109EC", "U+109ED", "U+109EE", "U+109EF", "U+109F0",
     "U+109F1", "U+109F2", "U+109F3", "U+109F4", "U+109F5", "U+109F6", "U+109F7", "U+109F8",
     "U+109F9", "U+109FA", "U+109FB", "U+109FC", "U+109FD", "U+109FE", "U+109FF", "U+10A40",
     "U+10A41", "U+10A42", "U+10A43", "U+10A44", "U+10A45", "U+10A46", "U+10A47", "U+10A48",
     "U+10A7D", "U+10A7E", "U+10A9D", "U+10A9E", "U+10A9F", "U+10AEB", "U+10AEC", "U+10AED",
     "U+10AEE", "U+10AEF", "U+10B58", "U+10B59", "U+10B5A", "U+10B5B", "U+10B5C", "U+10B5D",
     "U+10B5E", "U+10B5F", "U+10B78", "U+10B79", "U+10B7A", "U+10B7B", "U+10B7C", "U+10B7D",
     "U+10B7E", "U+10B7F", "U+10BA9", "U+10BAA", "U+10BAB", "U+10BAC", "U+10BAD", "U+10BAE",
     "U+10BAF", "U+10CFA", "U+10CFB", "U+10CFC", "U+10CFD", "U+10CFE", "U+10CFF", "U+10E60",
     "U+10E61", "U+10E62", "U+10E63", "U+10E64", "U+10E65", "U+10E66", "U+10E67", "U+10E68",
     "U+10E69", "U+10E6A", "U+10E6B", "U+10E6C", "U+10E6D", "U+10E6E", "U+10E6F", "U+10E70",
     "U+10E71", "U+10E72", "U+10E73", "U+10E74", "U+10E75", "U+10E76", "U+10E77", "U+10E78",
     "U+10E79", "U+10E7A", "U+10E7B", "U+10E7C", "U+10E7D", "U+10E7E", "U+10F1D", "U+10F1E",
     "U+10F1F", "U+10F20", "U+10F21", "U+10F22", "U+10F23", "U+10F24", "U+10F25", "U+10F26",
     "U+10F51", "U+10F52", "U+10F53", "U+10F54", "U+10FC5", "U+10FC6", "U+10FC7", "U+10FC8",
     "U+10FC9", "U+10FCA", "U+10FCB", "U+11052", "U+11053", "U+11054", "U+11055", "U+11056",
     "U+11057", "U+11058", "U+11059", "U+1105A", "U+1105B", "U+1105C", "U+1105D", "U+1105E",
     "U+1105F", "U+11060", "U+11061", "U+11062", "U+11063", "U+11064", "U+11065", "U+111E1",
     "U+111E2", "U+111E3", "U+111E4", "U+111E5", "U+111E6", "U+111E7", "U+111E8", "U+111E9",
     "U+111EA", "U+111EB", "U+111EC", "U+111ED", "U+111EE", "U+111EF", "U+111F0", "U+111F1",
     "U+111F2", "U+111F3", "U+111F4", "U+1173A", "U+1173B", "U+118EA", "U+118EB", "U+118EC",
     "U+118ED", "U+118EE", "U+118EF", "U+118F0", "U+118F1", "U+118F2", "U+11C5A", "U+11C5B",
     "U+11C5C", "U+11C5D", "U+11C5E", "U+11C5F", "U+11C60", "U+11C61", "U+11C62", "U+11C63",
     "U+11C64", "U+11C65", "U+11C66", "U+11C67", "U+11C68", "U+11C69", "U+11C6A", "U+11C6B",
     "U+11C6C", "U+11FC0", "U+11FC1", "U+11FC2", "U+11FC3", "U+11FC4", "U+11FC5", "U+11FC6",
     "U+11FC7", "U+11FC8", "U+11FC9", "U+11FCA", "U+11FCB", "U+11FCC", "U+11FCD", "U+11FCE",
     "U+11FCF", "U+11FD0", "U+11FD1", "U+11FD2", "U+11FD3", "U+11FD4", "U+12400", "U+12401",
     "U+12402", "U+12403", "U+12404", "U+12405", "U+12406", "U+12407", "U+12408", "U+12409",
     "U+1240A", "U+1240B", "U+1240C", "U+1240D", "U+1240E", "U+1240F", "U+12410", "U+12411",
     "U+12412", "U+12413", "U+12414", "U+12415", "U+12416", "U+12417", "U+12418", "U+12419",
     "U+1241A", "U+1241B", "U+1241C", "U+1241D", "U+1241E", "U+1241F", "U+12420", "U+12421",
     "U+12422", "U+12423", "U+12424", "U+12425", "U+12426", "U+12427", "U+12428", "U+12429",
     "U+1242A", "U+1242B", "U+1242C", "U+1242D", "U+1242E", "U+1242F", "U+12430", "U+12431",
     "U+12432", "U+12433", "U+12434", "U+12435", "U+12436", "U+12437", "U+12438", "U+12439",
     "U+1243A", "U+1243B", "U+1243C", "U+1243D", "U+1243E", "U+1243F", "U+12440", "U+12441",
     "U+12442", "U+12443", "U+12444", "U+12445", "U+12446", "U+12447", "U+12448", "U+12449",
     "U+1244A", "U+1244B", "U+1244C", "U+1244D", "U+1244E", "U+1244F", "U+12450", "U+12451",
     "U+12452", "U+12453", "U+12454", "U+12455", "U+12456", "U+12457", "U+12458", "U+12459",
     "U+1245A", "U+1245B", "U+1245C", "U+1245D", "U+1245E", "U+1245F", "U+12460", "U+12461",
     "U+12462", "U+12463", "U+12464", "U+12465", "U+12466", "U+12467", "U+12468", "U+12469",
     "U+1246A", "U+1246B", "U+1246C", "U+1246D", "U+1246E", "U+16B5B", "U+16B5C", "U+16B5D",
     "U+16B5E", "U+16B5F", "U+16B60", "U+16B61", "U+16E80", "U+16E81", "U+16E82", "U+16E83",
     "U+16E84", "U+16E85", "U+16E86", "U+16E87", "U+16E88", "U+16E89", "U+16E8A", "U+16E8B",
     "U+16E8C", "U+16E8D", "U+16E8E", "U+16E8F", "U+16E90", "U+16E91", "U+16E92", "U+16E93",
     "U+16E94", "U+16E95", "U+16E96", "U+1D2E0", "U+1D2E1", "U+1D2E2", "U+1D2E3", "U+1D2E4",
     "U+1D2E5", "U+1D2E6", "U+1D2E7", "U+1D2E8", "U+1D2E9", "U+1D2EA", "U+1D2EB", "U+1D2EC",
     "U+1D2ED", "U+1D2EE", "U+1D2EF", "U+1D2F0", "U+1D2F1", "U+1D2F2", "U+1D2F3", "U+1D360",
     "U+1D361", "U+1D362", "U+1D363", "U+1D364", "U+1D365", "U+1D366", "U+1D367", "U+1D368",
     "U+1D369", "U+1D36A", "U+1D36B", "U+1D36C", "U+1D36D", "U+1D36E", "U+1D36F", "U+1D370",
     "U+1D371", "U+1D372", "U+1D373", "U+1D374", "U+1D375", "U+1D376", "U+1D377", "U+1D378",
     "U+1E8C7", "U+1E8C8", "U+1E8C9", "U+1E8CA", "U+1E8CB", "U+1E8CC", "U+1E8CD", "U+1E8CE",
     "U+1E8CF", "U+1EC71", "U+1EC72", "U+1EC73", "U+1EC74", "U+1EC75", "U+1EC76", "U+1EC77",
     "U+1EC78", "U+1EC79", "U+1EC7A", "U+1EC7B", "U+1EC7C", "U+1EC7D", "U+1EC7E", "U+1EC7F",
     "U+1EC80", "U+1EC81", "U+1EC82", "U+1EC83", "U+1EC84", "U+1EC85", "U+1EC86", "U+1EC87",
     "U+1EC88", "U+1EC89", "U+1EC8A", "U+1EC8B", "U+1EC8C", "U+1EC8D", "U+1EC8E", "U+1EC8F",
     "U+1EC90", "U+1EC91", "U+1EC92", "U+1EC93", "U+1EC94", "U+1EC95", "U+1EC96", "U+1EC97",
     "U+1EC98", "U+1EC99", "U+1EC9A", "U+1EC9B", "U+1EC9C", "U+1EC9D", "U+1EC9E", "U+1EC9F",
     "U+1ECA0", "U+1ECA1", "U+1ECA2", "U+1ECA3", "U+1ECA4", "U+1ECA5", "U+1ECA6", "U+1ECA7",
     "U+1ECA8", "U+1ECA9", "U+1ECAA", "U+1ECAB", "U+1ECAD", "U+1ECAE", "U+1ECAF", "U+1ECB1",
     "U+1ECB2", "U+1ECB3", "U+1ECB4", "U+1ED01", "U+1ED02", "U+1ED03", "U+1ED04", "U+1ED05",
     "U+1ED06", "U+1ED07", "U+1ED08", "U+1ED09", "U+1ED0A", "U+1ED0B", "U+1ED0C", "U+1ED0D",
     "U+1ED0E", "U+1ED0F", "U+1ED10", "U+1ED11", "U+1ED12", "U+1ED13", "U+1ED14", "U+1ED15",
     "U+1ED16", "U+1ED17", "U+1ED18", "U+1ED19", "U+1ED1A", "U+1ED1B", "U+1ED1C", "U+1ED1D",
     "U+1ED1E", "U+1ED1F", "U+1ED20", "U+1ED21", "U+1ED22", "U+1ED23", "U+1ED24", "U+1ED25",
     "U+1ED26", "U+1ED27", "U+1ED28", "U+1ED29", "U+1ED2A", "U+1ED2B", "U+1ED2C", "U+1ED2D",
     "U+1ED2F", "U+1ED30", "U+1ED31", "U+1ED32", "U+1ED33", "U+1ED34", "U+1ED35", "U+1ED36",
     "U+1ED37", "U+1ED38", "U+1ED39", "U+1ED3A", "U+1ED3B", "U+1ED3C", "U+1ED3D", "U+1F100",
     "U+1F101", "U+1F102", "U+1F103", "U+1F104", "U+1F105", "U+1F106", "U+1F107", "U+1F108",
     "U+1F109", "U+1F10A", "U+1F10B", "U+1F10C", "U+20001", "U+20064", "U+200E2", "U+20121",
     "U+2092A", "U+20983", "U+2098C", "U+2099C", "U+20AEA", "U+20AFD", "U+20B19", "U+22390",
     "U+22998", "U+23B1B", "U+2626D", "U+2F890"}

\* the characters str.isnumeric holds for
NumericChar == UNION {DecimalChars[i] : i \in 1..10} \cup NumericNotDecimal

\* the characters str.strip and str.split remove: those str.isspace holds
\* for; the ones without an escape are single elements named by code point
Whitespace ==
    {" ", "\t", "\n", "\f", "\r", "U+000B", "U+001C", "U+001D", "U+001E", "U+001F",
     "U+0085", "U+00A0", "U+1680", "U+2000", "U+2001", "U+2002", "U+2003",
     "U+2004", "U+2005", "U+2006", "U+2007", "U+2008", "U+2009", "U+200A",
     "U+2028", "U+2029", "U+202F", "U+205F", "U+3000"}

\* str.isnumeric
isnumeric(s) == s # <<>> /\ \A i \in 1..Len(s) : s[i] \in NumericChar

\* str.strip
RECURSIVE LStrip(_)
LStrip(s) == IF s # <<>> /\ s[1] \in Whitespace THEN LStrip(Tail(s)) ELSE s
RECURSIVE RStrip(_)
RStrip(s) ==
    IF s # <<>> /\ s[Len(s)] \in Whitespace THEN RStrip(SubSeq(s, 1, Len(s) - 1)) ELSE s
strip(s) == RStrip(LStrip(s))

Arrow == <<"-", "-", ">">>

\* sub in s
Contains(s, sub) ==
    \E i \in 1..(Len(s) - Len(sub) + 1) : SubSeq(s, i, i + Len(sub) - 1) = sub

\* str.split(): the maximal runs of non-whitespace characters
RECURSIVE SplitFrom(_, _, _)
SplitFrom(s, i, cur) ==
    IF i > Len(s) THEN (IF cur = <<>> THEN <<>> ELSE <<cur>>)
    ELSE IF s[i] \in Whitespace
         THEN (IF cur = <<>> THEN <<>> ELSE <<cur>>) \o SplitFrom(s, i + 1, <<>>)
         ELSE SplitFrom(s, i + 1, Append(cur, s[i]))
split(s) == SplitFrom(s, 1, <<>>)

\* ------------------------------------------------------------------------
\* Transcript items.  An item is the JSON object of one token; content
\* stands for item['alternatives'][0]['content'].  Punctuation items carry
\* no start_time and no end_time.
\* ------------------------------------------------------------------------
WordItem(start, end, text) ==
    [type |-> "pronunciation", start_time |-> start, end_time |-> end, content |-> text]

PunctItem(text) == [type |-> "punctuation", content |-> text]

\* a pronunciation item that lacks its timing fields
UntimedWordItem(text) == [type |-> "pronunciation", content |-> text]

Has(item, key) == key \in DOMAIN item

\* ------------------------------------------------------------------------
\* getPhrasesFromTranscript: one iteration of its loop
\* ------------------------------------------------------------------------
SegmentSize == 10

\* the field the iteration reads that the item lacks (a KeyError), or "none"
MissingKey(nPhrase, item) ==
    IF ~Has(item, "type") THEN "type"
    ELSE IF nPhrase /\ item.type = "pronunciation" /\ ~Has(item, "start_time")
         THEN "start_time"
    ELSE IF ~nPhrase /\ item.type = "pronunciation" /\ ~Has(item, "end_time")
         THEN "end_time"
    ELSE IF ~Has(item, "content") THEN "content"
    ELSE "none"

\* getTimeCode as defined in the script: the VTT script's writes "." before
\* the milliseconds, the SRT and SSML scripts' write ","
getTimeCodeOf(script, seconds) ==
    IF script = "VTT" THEN getTimeCodeVTT(seconds) ELSE getTimeCode(seconds)

\* the start time taken from every Word token, the flag ignored
StartTimeStepEveryWord(script, phrase, nPhrase, item) ==
    IF item.type = "pronunciation"
    THEN getTimeCodeOf(script, FloatOfMillis(item.start_time))
    ELSE phrase.start_time

\* phrase["start_time"] after the "if nPhrase == True" branch
StartTimeStep(script, phrase, nPhrase, item) ==
    IF nPhrase /\ item.type = "pronunciation"
    THEN getTimeCodeOf(script, FloatOfMillis(item.start_time))
    ELSE phrase.start_time

\* phrase["end_time"] after the else branch
EndTimeStep(script, phrase, nPhrase, item) ==
    IF ~nPhrase /\ item.type = "pronunciation"
    THEN getTimeCodeOf(script, FloatOfMillis(item.end_time))
    ELSE phrase.end_time

\* nPhrase after the if/else
AwaitingStep(nPhrase, item) ==
    IF nPhrase /\ item.type = "pronunciation" THEN FALSE ELSE nPhrase

\* the phrase sealed one token early
PhraseFullEarly(x) == x = SegmentSize - 1

\* if x == 10
PhraseFull(x) == x = SegmentSize

\* the phrase when only Word tokens are appended to it
PhraseStepWordsOnly(script, phrase, nPhrase, item) ==
    [start_time |-> StartTimeStep(script, phrase, nPhrase, item),
     end_time   |-> EndTimeStep(script, phrase, nPhrase, item),
     words      |-> IF item.type = "pronunciation"
                    THEN Append(phrase.words, item.content)
                    ELSE phrase.words]

\* the phrase after the if/else and the append
PhraseStep(script, phrase, nPhrase, item) ==
    [start_time |-> StartTimeStep(script, phrase, nPhrase, item),
     end_time   |-> EndTimeStep(script, phrase, nPhrase, item),
     words      |-> Append(phrase.words, item.content)]

\* the seal that leaves the counter running
SealStepKeepsCounter(st, item, filled, x1, c1) ==
    IF PhraseFull(x1)
    THEN [phrase |-> newPhrase, phrases |-> Append(st.phrases, filled),
          nPhrase |-> TRUE, x |-> x1, c |-> c1]
    ELSE [phrase |-> filled, phrases |-> st.phrases,
          nPhrase |-> AwaitingStep(st.nPhrase, item), x |-> x1, c |-> c1]

\* x += 1 and the "if x == 10" block, filled the phrase with the item in it
SealStep(st, item, filled, x1, c1) ==
    IF PhraseFull(x1)
    THEN [phrase |-> newPhrase, phrases |-> Append(st.phrases, filled),
          nPhrase |-> TRUE, x |-> 0, c |-> c1]
    ELSE [phrase |-> filled, phrases |-> st.phrases,
          nPhrase |-> AwaitingStep(st.nPhrase, item), x |-> x1, c |-> c1]

\* the loop body on st = [phrase, phrases, nPhrase, x, c]
LoopBody(script, st, item) ==
    SealStep(st, item, PhraseStep(script, st.phrase, st.nPhrase, item),
             st.x + 1, IF st.nPhrase THEN st.c + 1 ELSE st.c)

\* ------------------------------------------------------------------------
\* getPhraseText
\* ------------------------------------------------------------------------
RECURSIVE PhraseTextFrom(_, _, _)
PhraseTextFrom(words, i, out) ==
    IF i > Len(words) THEN out
    ELSE PhraseTextFrom(words, i + 1,
            IF MatchesAlnum(words[i])
            THEN (IF i > 1 THEN out \o <<" ">> \o words[i] ELSE out \o words[i])
            ELSE out \o words[i])

getPhraseText(phrase) == PhraseTextFrom(phrase.words, 1, <<>>)

\* ------------------------------------------------------------------------
\* writeSRT, writeVTT: the lines written to the file
\* ------------------------------------------------------------------------
ArrowSep == <<" ", "-", "-", ">", " ">>

\* the cue numbered from zero
SRTCueFromZero(x, phrase) ==
    << DecDigits(x - 1),
       phrase.start_time \o ArrowSep \o phrase.end_time,
       getPhraseText(phrase),
       <<>> >>

\* the three writes of one loop iteration, x the phrase number
SRTCue(x, phrase) ==
    << DecDigits(x),
       phrase.start_time \o ArrowSep \o phrase.end_time,
       getPhraseText(phrase),
       <<>> >>

VTTCue(x, phrase, fstyle) ==
    << DecDigits(x),
       phrase.start_time \o ArrowSep \o phrase.end_time \o <<" ">> \o fstyle,
       getPhraseText(phrase),
       <<>> >>

RECURSIVE SRTCuesFrom(_, _)
SRTCuesFrom(phrases, x) ==
    IF x > Len(phrases) THEN <<>>
    ELSE SRTCue(x, phrases[x]) \o SRTCuesFrom(phrases, x + 1)

writeSRT(phrases) == SRTCuesFrom(phrases, 1)

VTTHeader == << <<"W", "E", "B", "V", "T", "T">>, <<>> >>

RECURSIVE VTTCuesFrom(_, _, _)
VTTCuesFrom(phrases, x, fstyle) ==
    IF x > Len(phrases) THEN <<>>
    ELSE VTTCue(x, phrases[x], fstyle) \o VTTCuesFrom(phrases, x + 1, fstyle)

\* the header written only when there is a cue
writeVTTHeaderWithCues(phrases, fstyle) ==
    IF phrases = <<>> THEN <<>> ELSE VTTHeader \o VTTCuesFrom(phrases, 1, fstyle)

writeVTT(phrases, fstyle) == VTTHeader \o VTTCuesFrom(phrases, 1, fstyle)

\* ------------------------------------------------------------------------
\* writeSSML
\* ------------------------------------------------------------------------
SpeakOpen == <<"<", "s", "p", "e", "a", "k", ">">>
SpeakClose == <<"<", "/", "s", "p", "e", "a", "k", ">">>
ProsodyOpen == <<"<", "p", "r", "o", "s", "o", "d", "y", " ", "a", "m", "a", "z", "o", "n", ":", "m", "a", "x", "-", "d", "u", "r", "a", "t", "i", "o", "n", "=", "\"">>
ProsodyMid == <<"\"", ">">>
ProsodyClose == <<"<", "/", "p", "r", "o", "s", "o", "d", "y", ">">>

ProsodyLine(duration, text) ==
    ProsodyOpen \o duration \o ProsodyMid \o text \o ProsodyClose

\* "%3.2f" % totalseconds of one phrase; both time codes parse
PhraseDuration(phrase, padm) ==
    Fmt2f(TotalSeconds(strptime(phrase.start_time), strptime(phrase.end_time), padm))

PhraseParses(phrase) == strptime(phrase.start_time).ok /\ strptime(phrase.end_time).ok

\* the loop of writeSSML from phrase i on, ssml the lines so far:
\* ok is FALSE when a strptime raised ValueError
RECURSIVE SSMLBodyFrom(_, _, _, _)
SSMLBodyFrom(phrases, i, padm, ssml) ==
    IF i > Len(phrases) THEN [ok |-> TRUE, lines |-> ssml]
    ELSE IF ~PhraseParses(phrases[i]) THEN [ok |-> FALSE, lines |-> <<>>]
    ELSE SSMLBodyFrom(phrases, i + 1, padm,
            Append(ssml, ProsodyLine(PhraseDuration(phrases[i], padm),
                                     getPhraseText(phrases[i]))))

CloseSpeak(body) ==
    IF body.ok THEN [ok |-> TRUE, lines |-> Append(body.lines, SpeakClose)] ELSE body

writeSSML(phrases, padm) == CloseSpeak(SSMLBodyFrom(phrases, 1, padm, <<SpeakOpen>>))

\* ------------------------------------------------------------------------
\* createSSMLfromSRT.py
\* ------------------------------------------------------------------------
\* srtlines = [x.strip() for x in srtcontents]
StripAll(lines) == [i \in 1..Len(lines) |-> strip(lines[i])]

\* the loop that drops the SRT line number rows and the blank lines
RECURSIVE DropNumbersAndBlanks(_)
DropNumbersAndBlanks(lines) ==
    IF lines = <<>> THEN <<>>
    ELSE IF ~isnumeric(lines[1]) /\ lines[1] # <<>>
         THEN <<lines[1]>> \o DropNumbersAndBlanks(Tail(lines))
         ELSE DropNumbersAndBlanks(Tail(lines))

\* one iteration of the duration loop at index count (1-based here):
\* err is the exception it raises, add whether it appends a phrase
StepResult(e, a, p) == [err |-> e, add |-> a, pair |-> p]

\* the body of "if '-->' in srtlines2[count]", temp the split line
TimedLine(srtlines2, count, padm, temp) ==
    IF Len(temp) < 1 THEN StepResult("IndexError", FALSE, <<>>)
    ELSE IF ~strptime(temp[1]).ok THEN StepResult("ValueError", FALSE, <<>>)
    ELSE IF Len(temp) < 3 THEN StepResult("IndexError", FALSE, <<>>)
    ELSE IF ~strptime(temp[3]).ok THEN StepResult("ValueError", FALSE, <<>>)
    ELSE IF count + 1 > Len(srtlines2) THEN StepResult("IndexError", FALSE, <<>>)
    ELSE StepResult("none", TRUE,
            << Fmt2f(TotalSeconds(strptime(temp[1]), strptime(temp[3]), padm)),
               srtlines2[count + 1] >>)

DurationStep(srtlines2, count, padm) ==
    IF ~Contains(srtlines2[count], Arrow) THEN StepResult("none", FALSE, <<>>)
    ELSE TimedLine(srtlines2, count, padm, split(srtlines2[count]))

\* the SSML assembled from the list of phrases
RECURSIVE ProsodyLines(_)
ProsodyLines(srtlines3) ==
    IF srtlines3 = <<>> THEN <<>>
    ELSE <<ProsodyLine(srtlines3[1][1], srtlines3[1][2])>> \o ProsodyLines(Tail(srtlines3))

AssembleSSML(srtlines3) == <<SpeakOpen>> \o ProsodyLines(srtlines3) \o <<SpeakClose>>

\* ------------------------------------------------------------------------
\* Inputs.  A transcript is drawn from families of token streams: item i
\* has the kind the family's pattern gives position i (repeating), word
\* i starts at T0 + i * Gap milliseconds and lasts Dur milliseconds.
\* ------------------------------------------------------------------------
MaxItems == 21

Words == << <<"o", "n", "e">>, <<"t", "w", "o">>, <<"t", "h", "r", "e", "e">>, <<"f", "o", "u", "r">>, <<"f", "i", "v", "e">>, <<"s", "i", "x">>, <<"s", "e", "v", "e", "n">>, <<"e", "i", "g", "h", "t">>, <<"n", "i", "n", "e">>, <<"t", "e", "n">> >>

\* kinds: w a word, p a punctuation mark, n a numeral word, u a word without
\* times, a the word "U+00E9 t U+00E9" (e-acute, t, e-acute: French for
\* summer), whose first character is a letter outside a-z
Patterns ==
    { <<"w">>,
      <<"p">>,
      <<"n">>,
      <<"w", "p">>,
      <<"p", "w">>,
      <<"w", "a">>,
      <<"w", "w", "w", "p">>,
      <<"p", "p", "p", "w", "p", "p", "p", "p", "p", "p", "p">>,
      <<"w", "p", "p", "p", "p", "p", "p", "p", "p", "p", "p", "p">>,
      <<"p", "p", "p", "p", "p", "p", "p", "p", "p", "w">>,
      <<"w", "w", "w", "w", "w", "w", "w", "w", "w", "w", "w", "w", "w", "u">> }

\* <<T0, Gap, Dur>> in milliseconds
Timings ==
    { <<0, 500, 0>>,
      <<61000, 601, 333>>,
      <<60500, 100, 50>>,
      <<3594000, 1000, 800>> }

Gens == [pat : Patterns, tim : Timings]

ItemAt(gen, i) ==
    LET kind  == gen.pat[(i % Len(gen.pat)) + 1]
        start == gen.tim[1] + i * gen.tim[2]
        end   == start + gen.tim[3]
    IN  CASE kind = "w" -> WordItem(start, end, Words[(i % 10) + 1])
          [] kind = "n" -> WordItem(start, end, <<"U+4E09">>)
          [] kind = "u" -> UntimedWordItem(Words[(i % 10) + 1])
          [] kind = "a" -> WordItem(start, end, <<"U+00E9", "t", "U+00E9">>)
          [] OTHER      -> PunctItem(IF i % 2 = 0 THEN <<",">> ELSE <<".">>)

\* -pcttimepad in thousandths; 1000 is the default '1.0'
Pads == {1000, 1100, 500}

\* -fstyle
Styles == { <<>>, <<"A", ":", "m", "i", "d", "d", "l", "e", " ", "L", ":", "9", "0", "%">> }

\* SRT documents createSSMLfromSRT.py is run on directly, as sequences of
\* lines: the spec's example cue, a cue whose text is a number, time codes
\* with "." before the milliseconds, a cue without its text line, lines
\* with surrounding whitespace, a cue that ends before it starts, a time
\* line without its end, a cue without text followed by a full cue, lines
\* with form feeds and other whitespace characters around and inside them,
\* time codes and an index line written with digits of other scripts, a cue
\* whose text is the character one half, and the empty document
DocExample ==
    << <<"1">>,
         <<"0", "0", ":", "0", "0", ":", "0", "1", ",", "0", "0", "0", " ", "-", "-", ">", " ", "0", "0", ":", "0", "0", ":", "0", "3", ",", "0", "0", "0">>,
         <<"H", "e", "l", "l", "o", " ", "w", "o", "r", "l", "d">>,
         <<>> >>

DocNumericText ==
    << <<"1">>,
         <<"0", "0", ":", "0", "0", ":", "0", "1", ",", "0", "0", "0", " ", "-", "-", ">", " ", "0", "0", ":", "0", "0", ":", "0", "3", ",", "0", "0", "0">>,
         <<"4", "2">>,
         <<>>,
         <<"2">>,
         <<"0", "0", ":", "0", "0", ":", "0", "3", ",", "5", "0", "0", " ", "-", "-", ">", " ", "0", "0", ":", "0", "0", ":", "0", "4", ",", "2", "5", "0">>,
         <<"B", "y", "e">>,
         <<>> >>

DocDotSeparator ==
    << <<"1">>,
         <<"0", "0", ":", "0", "0", ":", "0", "1", ".", "0", "0", "0", " ", "-", "-", ">", " ", "0", "0", ":", "0", "0", ":", "0", "3", ".", "0", "0", "0">>,
         <<"H", "e", "l", "l", "o">>,
         <<>> >>

DocNoText ==
    << <<"1">>,
         <<"0", "0", ":", "0", "0", ":", "0", "1", ",", "0", "0", "0", " ", "-", "-", ">", " ", "0", "0", ":", "0", "0", ":", "0", "3", ",", "0", "0", "0">> >>

DocPadded ==
    << <<" ", " ", "1", " ">>,
         <<"\t", "0", "0", ":", "0", "0", ":", "5", "9", ",", "9", "9", "9", " ", "-", "-", ">", " ", "0", "0", ":", "0", "1", ":", "0", "0", ",", "0", "0", "4", " ", " ">>,
         <<" ", " ", "H", "i", " ", "t", "h", "e", "r", "e", " ", " ">>,
         <<" ", " ", " ">>,
         <<"2">>,
         <<"0", "1", ":", "0", "0", ":", "0", "0", ",", "0", "0", "0", " ", "-", "-", ">", " ", "0", "1", ":", "0", "0", ":", "0", "2", ",", "6", "7", "5">>,
         <<"a", " ", "b">>,
         <<>> >>

DocBackwards ==
    << <<"1">>,
         <<"0", "0", ":", "0", "0", ":", "0", "5", ",", "0", "0", "0", " ", "-", "-", ">", " ", "0", "0", ":", "0", "0", ":", "0", "3", ",", "0", "0", "0">>,
         <<"B", "a", "c", "k">>,
         <<>> >>

DocNoEnd ==
    << <<"1">>,
         <<"0", "0", ":", "0", "0", ":", "0", "1", ",", "0", "0", "0", " ", "-", "-", ">">>,
         <<"x">>,
         <<>> >>

DocNoTextThenCue ==
    << <<"1">>,
         <<"0", "0", ":", "0", "0", ":", "0", "1", ",", "0", "0", "0", " ", "-", "-", ">", " ", "0", "0", ":", "0", "0", ":", "0", "3", ",", "0", "0", "0">>,
         <<>>,
         <<"2">>,
         <<"0", "0", ":", "0", "0", ":", "0", "3", ",", "5", "0", "0", " ", "-", "-", ">", " ", "0", "0", ":", "0", "0", ":", "0", "4", ",", "2", "5", "0">>,
         <<"B", "y", "e">>,
         <<>> >>

DocFormFeed ==
    << <<"\f", "1">>,
         <<"0", "0", ":", "0", "0", ":", "0", "1", ",", "0", "0", "0", "\f", "-", "-", ">", "\f", "0", "0", ":", "0", "0", ":", "0", "3", ",", "0", "0", "0">>,
         <<"\f">>,
         <<>>,
         <<"2">>,
         <<"U+001C", "0", "0", ":", "0", "0", ":", "0", "3", ",", "5", "0", "0", "U+000B", "-", "-", ">", "U+00A0", "0", "0", ":", "0", "0", ":", "0", "4", ",", "2", "5", "0", "U+0085">>,
         <<" ", "B", "y", "e", "U+001F">>,
         <<>> >>

DocUnicodeDigits ==
    << <<"1">>,
         <<"0", "U+0663", ":", "5", "U+0663", ":", "U+FF11", ",", "5", "0", "0", " ", "-", "-", ">", " ", "0", "U+0663", ":", "5", "U+0663", ":", "0", "U+0663", ",", "0", "0", "0">>,
         <<"H", "e", "l", "l", "o">>,
         <<>>,
         <<"U+0662">>,
         <<"1", "U+0669", ":", "0", "0", ":", "0", "0", ",", "0", " ", "-", "-", ">", " ", "1", "U+0669", ":", "0", "0", ":", "0", "2", ",", "0">>,
         <<"x">>,
         <<>> >>

DocHalfText ==
    << <<"1">>,
         <<"0", "0", ":", "0", "0", ":", "0", "1", ",", "0", "0", "0", " ", "-", "-", ">", " ", "0", "0", ":", "0", "0", ":", "0", "3", ",", "0", "0", "0">>,
         <<"U+00BD">>,
         <<>> >>

SRTDocs ==
    { DocExample, DocNumericText, DocDotSeparator, DocNoText, DocPadded,
      DocBackwards, DocNoEnd, DocNoTextThenCue, DocFormFeed, DocUnicodeDigits,
      DocHalfText, <<>> }

\* gen of a run that reads no transcript
NoGen == [pat |-> <<>>, tim |-> <<0, 0, 0>>]

NoFile == [exists |-> FALSE, lines |-> <<>>]
FileOf(lines) == [exists |-> TRUE, lines |-> lines]

\* ------------------------------------------------------------------------
\* The state of one run
\* ------------------------------------------------------------------------
VARIABLES
    script,       \* the script that runs: "SRT", "VTT", "SSML" or "SRT2SSML"
    pc,           \* where it is: "segment", "write", "ssml", "srt_read",
                  \* "srt_loop", "done", "crashed"
    err,          \* the exception that ended it, "none" while there is none
    gen,          \* the family the transcript is drawn from
    items,        \* ts['results']['items'], as far as the loop has read it
    phrase, phrases, nPhrase, x, c,    \* locals of getPhrasesFromTranscript
    padm,         \* args.pcttimepad, in thousandths
    fstyle,       \* args.fstyle
    srtfile,      \* the SRT file: written by the SRT script, read by SRT2SSML
    vttfile,      \* the VTT file
    ssmlfile,     \* the SSML file
    srtlines2,    \* createSSMLfromSRT.py: the retained lines
    count,        \* its duration loop's index (the lines done)
    srtlines3     \* its list of [duration, text] phrases

vars == << script, pc, err, gen, items, phrase, phrases, nPhrase, x, c, padm, fstyle,
           srtfile, vttfile, ssmlfile, srtlines2, count, srtlines3 >>

segVars == << phrase, phrases, nPhrase, x, c >>
fileVars == << srtfile, vttfile, ssmlfile >>
srtVars == << srtlines2, count, srtlines3 >>

\* a transcript script starts: arguments parsed, transcript read, the
\* locals of getPhrasesFromTranscript set up
TranscriptInit ==
    /\ script \in {"SRT", "VTT", "SSML"}
    /\ pc = "segment"
    /\ err = "none"
    /\ gen \in Gens
    /\ items = <<>>
    /\ phrase = newPhrase
    /\ phrases = <<>>
    /\ nPhrase = TRUE
    /\ x = 0
    /\ c = 0
    /\ padm \in (IF script = "SSML" THEN Pads ELSE {1000})
    /\ fstyle \in (IF script = "VTT" THEN Styles ELSE {<<>>})
    /\ srtfile = NoFile
    /\ vttfile = NoFile
    /\ ssmlfile = NoFile
    /\ srtlines2 = <<>>
    /\ count = 0
    /\ srtlines3 = <<>>

\* createSSMLfromSRT.py starts on an SRT document that exists already
SRTInit ==
    /\ script = "SRT2SSML"
    /\ pc = "srt_read"
    /\ err = "none"
    /\ gen = NoGen
    /\ items = <<>>
    /\ phrase = newPhrase
    /\ phrases = <<>>
    /\ nPhrase = TRUE
    /\ x = 0
    /\ c = 0
    /\ padm \in Pads
    /\ fstyle = <<>>
    /\ srtfile \in {FileOf(d) : d \in SRTDocs}
    /\ vttfile = NoFile
    /\ ssmlfile = NoFile
    /\ srtlines2 = <<>>
    /\ count = 0
    /\ srtlines3 = <<>>

Init == TranscriptInit \/ SRTInit

\* for item in items: one iteration
ReadItem ==
    /\ pc = "segment"
    /\ Len(items) < MaxItems
    /\ \E item \in {ItemAt(gen, Len(items))} :
           /\ items' = Append(items, item)
           /\ IF MissingKey(nPhrase, item) # "none"
              THEN /\ pc' = "crashed"
                   /\ err' = "KeyError"
                   /\ UNCHANGED segVars
              ELSE \E r \in {LoopBody(script, [phrase |-> phrase, phrases |-> phrases,
                                                nPhrase |-> nPhrase, x |-> x, c |-> c],
                                      item)} :
                       /\ phrase' = r.phrase
                       /\ phrases' = r.phrases
                       /\ nPhrase' = r.nPhrase
                       /\ x' = r.x
                       /\ c' = r.c
                       /\ UNCHANGED << pc, err >>
    /\ UNCHANGED << script, gen, padm, fstyle, fileVars, srtVars >>

\* the items are exhausted: return phrases
EndOfItems ==
    /\ pc = "segment"
    /\ pc' = "write"
    /\ UNCHANGED << script, err, gen, items, segVars, padm, fstyle, fileVars, srtVars >>

WriteSRT ==
    /\ pc = "write"
    /\ script = "SRT"
    /\ srtfile' = FileOf(writeSRT(phrases))
    /\ pc' = "done"
    /\ UNCHANGED << script, err, gen, items, segVars, padm, fstyle, vttfile, ssmlfile, srtVars >>

WriteVTT ==
    /\ pc = "write"
    /\ script = "VTT"
    /\ vttfile' = FileOf(writeVTT(phrases, fstyle))
    /\ pc' = "done"
    /\ UNCHANGED << script, err, gen, items, segVars, padm, fstyle, srtfile, ssmlfile, srtVars >>

\* writeSSML opens (creates, truncates) the file before its loop
OpenSSML ==
    /\ pc = "write"
    /\ script = "SSML"
    /\ ssmlfile' = FileOf(<<>>)
    /\ pc' = "ssml"
    /\ UNCHANGED << script, err, gen, items, segVars, padm, fstyle, srtfile, vttfile, srtVars >>

\* the loop of writeSSML and the write of the whole SSML string
BuildSSML ==
    /\ pc = "ssml"
    /\ \E r \in {writeSSML(phrases, padm)} :
           IF r.ok
           THEN /\ ssmlfile' = FileOf(r.lines)
                /\ pc' = "done"
                /\ UNCHANGED err
           ELSE /\ pc' = "crashed"
                /\ err' = "ValueError"
                /\ UNCHANGED ssmlfile
    /\ UNCHANGED << script, gen, items, segVars, padm, fstyle, srtfile, vttfile, srtVars >>

\* createSSMLfromSRT.py is run on the SRT file the SRT script wrote
RunSSMLfromSRT ==
    /\ script = "SRT"
    /\ pc = "done"
    /\ script' = "SRT2SSML"
    /\ pc' = "srt_read"
    /\ padm' \in Pads
    /\ UNCHANGED << err, gen, items, segVars, fstyle, fileVars, srtVars >>

\* readlines, strip, and the loop that drops line numbers and blank lines
ReadSRT ==
    /\ script = "SRT2SSML"
    /\ pc = "srt_read"
    /\ srtlines2' = DropNumbersAndBlanks(StripAll(srtfile.lines))
    /\ count' = 0
    /\ srtlines3' = <<>>
    /\ pc' = "srt_loop"
    /\ UNCHANGED << script, err, gen, items, segVars, padm, fstyle, fileVars >>

\* one iteration of the duration loop
DurationLoop ==
    /\ pc = "srt_loop"
    /\ count < Len(srtlines2)
    /\ \E r \in {DurationStep(srtlines2, count + 1, padm)} :
           IF r.err # "none"
           THEN /\ pc' = "crashed"
                /\ err' = r.err
                /\ UNCHANGED << count, srtlines3 >>
           ELSE /\ count' = count + 1
                /\ srtlines3' = IF r.add THEN Append(srtlines3, r.pair) ELSE srtlines3
                /\ UNCHANGED << pc, err >>
    /\ UNCHANGED << script, gen, items, segVars, padm, fstyle, fileVars, srtlines2 >>

\* the SSML is assembled and written
WriteSSMLfromSRT ==
    /\ pc = "srt_loop"
    /\ count = Len(srtlines2)
    /\ ssmlfile' = FileOf(AssembleSSML(srtlines3))
    /\ pc' = "done"
    /\ UNCHANGED << script, err, gen, items, segVars, padm, fstyle, srtfile, vttfile, srtVars >>

Next ==
    \/ ReadItem
    \/ EndOfItems
    \/ WriteSRT
    \/ WriteVTT
    \/ OpenSSML
    \/ BuildSSML
    \/ RunSSMLfromSRT
    \/ ReadSRT
    \/ DurationLoop
    \/ WriteSSMLfromSRT

Spec == Init /\ [][Next]_vars


\* ------------------------------------------------------------------------
\* Notions the properties are stated in
\* ------------------------------------------------------------------------
\* the run read a transcript (the SRT it reprojects, if any, is its own)
FromTranscript == gen # NoGen

\* getPhrasesFromTranscript ran to its return
Segmented == FromTranscript /\ pc # "segment" /\ err # "KeyError"

IsWord(item) == item.type = "pronunciation"


\* the positions among lo..hi that hold a Word token
WordsIn(lo, hi) == {i \in lo..hi : i <= Len(items) /\ IsWord(items[i])}

\* the least and the greatest member of a nonempty set of positions
First(S) == CHOOSE i \in S : \A j \in S : i <= j
Last(S) == CHOOSE i \in S : \A j \in S : j <= i

\* the time code of the running script for a time in milliseconds
CodeOf(ms) == getTimeCodeOf(script, FloatOfMillis(ms))

\* C1: when getPhrasesFromTranscript has returned for a stream of n tokens,
\* the phrases are floor(n/10) in number, each holds exactly 10 tokens, and
\* together they are the first 10 * floor(n/10) tokens in order, so the last
\* n mod 10 tokens are in no phrase; the empty stream gives no phrase and
\* no error
C1_FullSegmentsOnly ==
    Segmented =>
        /\ Len(phrases) = Len(items) \div 10
        /\ \A k \in 1..Len(phrases) :
              /\ Len(phrases[k].words) = 10
              /\ \A j \in 1..10 : phrases[k].words[j] = items[10 * (k - 1) + j].content
        /\ (items = <<>> => phrases = <<>> /\ err = "none")

\* 13 tokens were read: one phrase is returned, three tokens are dropped
C1_Witness ==
    /\ Segmented
    /\ Len(items) = 13
    /\ Len(phrases) = 1

\* C2: every sealed phrase that holds a Word token has the end time of its
\* last Word token, also when it holds exactly one Word token
C2_EndIsLastWordsEnd ==
    Segmented =>
        \A k \in 1..Len(phrases) :
            WordsIn(10 * (k - 1) + 1, 10 * k) # {} =>
                phrases[k].end_time
                    = CodeOf(items[Last(WordsIn(10 * (k - 1) + 1, 10 * k))].end_time)

\* C3: every sealed phrase that holds a Word token has the start time of its
\* first Word token; in the phrase being filled the flag is set exactly as
\* long as no Word token has arrived, and from then on the start time is
\* that of the first Word token whatever follows
C3_StartIsFirstWordsStart ==
    (FromTranscript /\ err # "KeyError") =>
        /\ \A k \in 1..Len(phrases) :
              WordsIn(10 * (k - 1) + 1, 10 * k) # {} =>
                  phrases[k].start_time
                      = CodeOf(items[First(WordsIn(10 * (k - 1) + 1, 10 * k))].start_time)
        /\ nPhrase = (WordsIn(10 * Len(phrases) + 1, Len(items)) = {})
        /\ WordsIn(10 * Len(phrases) + 1, Len(items)) # {} =>
              phrase.start_time
                  = CodeOf(items[First(WordsIn(10 * Len(phrases) + 1, Len(items)))].start_time)

\* a sealed phrase that begins with punctuation and holds several Word
\* tokens with different start times
C3_Witness ==
    /\ Segmented
    /\ Len(phrases) >= 1
    /\ ~IsWord(items[1])
    /\ Cardinality(WordsIn(1, 10)) >= 2
    /\ gen.tim[2] > 0
    /\ phrases[1].start_time # <<>>

\* the lines of a cue: its index, its time range, its text, the blank line
CueAt(lines, k) == SubSeq(lines, 4 * k - 3, 4 * k)

\* a decimal numeral of n without sign or leading zero
IsNumeral(line, n) ==
    /\ line # <<>>
    /\ AllDigits(line)
    /\ (Len(line) > 1 => line[1] # "0")
    /\ DecValue(line) = n

TenWords == [pat |-> <<"w">>, tim |-> <<0, 500, 0>>]

\* C4: for N phrases the SRT file holds exactly N cues in phrase order and
\* nothing else; the k-th cue is the line k, the line 'start --> end', the
\* rendered text of the k-th phrase and a blank line.  For the ten Word
\* tokens 'one'..'ten', 0.5 s apart from 0.0 s, it is the one cue numbered
\* 1, 00:00:00,000 --> 00:00:04,500, with the words joined by single spaces
C4_SRTCuesInOrder ==
    (script = "SRT" /\ srtfile.exists) =>
        /\ Len(srtfile.lines) = 4 * Len(phrases)
        /\ \A k \in 1..Len(phrases) :
              /\ IsNumeral(CueAt(srtfile.lines, k)[1], k)
              /\ CueAt(srtfile.lines, k)[2]
                     = phrases[k].start_time \o <<" ", "-", "-", ">", " ">>
                           \o phrases[k].end_time
              /\ CueAt(srtfile.lines, k)[3] = getPhraseText(phrases[k])
              /\ CueAt(srtfile.lines, k)[4] = <<>>
        /\ (gen = TenWords /\ Len(items) = 10) =>
              srtfile.lines =
                  << <<"1">>,
                     <<"0", "0", ":", "0", "0", ":", "0", "0", ",", "0", "0", "0", " ", "-", "-", ">", " ", "0", "0", ":", "0", "0", ":", "0", "4", ",", "5", "0", "0">>,
                     <<"o", "n", "e", " ", "t", "w", "o", " ", "t", "h", "r", "e", "e", " ", "f", "o", "u", "r", " ", "f", "i", "v", "e", " ", "s", "i", "x", " ", "s", "e", "v", "e", "n", " ", "e", "i", "g", "h", "t", " ", "n", "i", "n", "e", " ", "t", "e", "n">>,
                     <<>> >>

\* the SRT of the ten words of the example has been written
C4_Witness ==
    /\ script = "SRT"
    /\ srtfile.exists
    /\ gen = TenWords
    /\ Len(items) = 10
    /\ Len(srtfile.lines) = 4

\* the phrases the SRT script makes of the tokens read, the first n of them
RECURSIVE SRTSegment(_, _)
SRTSegment(n, st) ==
    IF n = Len(items) THEN st.phrases
    ELSE SRTSegment(n + 1, LoopBody("SRT", st, items[n + 1]))

SRTOfItems ==
    writeSRT(SRTSegment(0, [phrase |-> newPhrase, phrases |-> <<>>, nPhrase |-> TRUE,
                            x |-> 0, c |-> 0]))

DotForComma(line) == [i \in 1..Len(line) |-> IF line[i] = "," THEN "." ELSE line[i]]

\* C5: the VTT file begins with the line WEBVTT and a blank line, once and
\* before any cue, also when there is no phrase; after them come the cues
\* of the SRT of the same tokens, line for line, except that each time
\* range has '.' before the milliseconds and ends with the style string
C5_VTTHeaderAndStyle ==
    (script = "VTT" /\ vttfile.exists) =>
        /\ Len(vttfile.lines) = 2 + 4 * Len(phrases)
        /\ vttfile.lines[1] = <<"W", "E", "B", "V", "T", "T">>
        /\ vttfile.lines[2] = <<>>
        /\ Len(SRTOfItems) = 4 * Len(phrases)
        /\ \A i \in 1..(4 * Len(phrases)) :
              vttfile.lines[2 + i] =
                  IF i % 4 = 2
                  THEN DotForComma(SRTOfItems[i]) \o <<" ">> \o fstyle
                  ELSE SRTOfItems[i]

\* a VTT of two cues with a style string has been written
C5_Witness ==
    /\ script = "VTT"
    /\ vttfile.exists
    /\ Len(phrases) = 2
    /\ fstyle # <<>>
    /\ phrases[2].end_time # <<>>

\* C6: for the phrases getPhrasesFromTranscript returned and any pad
\* factor, writeSSML ends with the complete document in the file: the line
\* <speak>, then for each phrase in order one prosody line whose
\* max-duration is (end - start) * pad with two decimals and whose body is
\* the rendered text, then </speak>, and no other line
C6_SSMLDocumentComplete ==
    (script = "SSML" /\ Segmented /\ pc \in {"done", "crashed"}) =>
        /\ pc = "done"
        /\ Len(ssmlfile.lines) = Len(phrases) + 2
        /\ ssmlfile.lines[1] = <<"<", "s", "p", "e", "a", "k", ">">>
        /\ \A k \in 1..Len(phrases) :
              ssmlfile.lines[k + 1] =
                  ProsodyOpen \o PhraseDuration(phrases[k], padm) \o ProsodyMid
                      \o getPhraseText(phrases[k]) \o ProsodyClose
        /\ ssmlfile.lines[Len(phrases) + 2] = <<"<", "/", "s", "p", "e", "a", "k", ">">>

\* the lines of an SRT document without their surrounding whitespace
Stripped(lines) == [i \in 1..Len(lines) |-> strip(lines[i])]

\* a time-range line: a time code, the arrow, a time code
IsTimeRange(line) ==
    /\ Len(split(line)) = 3
    /\ split(line)[2] = <<"-", "-", ">">>
    /\ strptime(split(line)[1]).ok
    /\ strptime(split(line)[3]).ok

\* every cue is an index line, a time-range line, one text line, and the
\* blank line that ends it
CuesOfThreeLines(lines) ==
    /\ Len(lines) % 4 = 0
    /\ \A k \in 1..(Len(lines) \div 4) :
          /\ IsNumeral(CueAt(lines, k)[1], k)
          /\ IsTimeRange(CueAt(lines, k)[2])
          /\ CueAt(lines, k)[3] # <<>>
          /\ CueAt(lines, k)[4] = <<>>

\* (end - start) * pad of a time-range line, with two decimals
RangeDuration(line) ==
    Fmt2f(TotalSeconds(strptime(split(line)[1]), strptime(split(line)[3]), padm))

\* C7: on an SRT document whose cues are each an index line, a time-range
\* line and one text line, the reprojection does not fail, retains exactly
\* the time-range lines and the text lines (only index lines and blank
\* lines are removed, whatever a text line holds), and ends with one
\* (duration, text) pair per cue in cue order, the duration (end - start) *
\* pad and the text the line after the time range; the cue 00:00:01,000 -->
\* 00:00:03,000 with pad 1.0 gives "2.00"
C7_OnePairPerCue ==
    (script = "SRT2SSML" /\ CuesOfThreeLines(Stripped(srtfile.lines))) =>
        /\ pc # "crashed"
        /\ pc \in {"srt_loop", "done"} =>
              /\ Len(srtlines2) = 2 * (Len(srtfile.lines) \div 4)
              /\ \A k \in 1..(Len(srtfile.lines) \div 4) :
                    /\ srtlines2[2 * k - 1] = CueAt(Stripped(srtfile.lines), k)[2]
                    /\ srtlines2[2 * k] = CueAt(Stripped(srtfile.lines), k)[3]
        /\ pc = "done" =>
              /\ Len(srtlines3) = Len(srtfile.lines) \div 4
              /\ \A k \in 1..(Len(srtfile.lines) \div 4) :
                    /\ srtlines3[k][1] = RangeDuration(CueAt(Stripped(srtfile.lines), k)[2])
                    /\ srtlines3[k][2] = CueAt(Stripped(srtfile.lines), k)[3]
        /\ (pc = "done" /\ srtfile.lines = DocExample /\ padm = 1000) =>
              srtlines3[1][1] = <<"2", ".", "0", "0">>

\* C8: the transcript's SSML durations by way of its SRT are those of
\* writeSSML on the same phrases with the same pad: when the reprojection
\* of the SRT the SRT script wrote has ended, either writeSSML succeeds on
\* the transcript's phrases and the two sequences of max-duration values
\* are equal, or both fail
C8_SamePathDurations ==
    (script = "SRT2SSML" /\ FromTranscript /\ pc \in {"done", "crashed"}) =>
        IF writeSSML(phrases, padm).ok
        THEN /\ pc = "done"
             /\ Len(srtlines3) = Len(phrases)
             /\ \A k \in 1..Len(phrases) :
                   srtlines3[k][1] = PhraseDuration(phrases[k], padm)
        ELSE pc = "crashed"

\* |a| <= |b| for two doubles
MagnitudeLeq(a, b) ==
    BCmp(BShl(a.m, a.e - (IF a.e < b.e THEN a.e ELSE b.e)),
         BShl(b.m, b.e - (IF a.e < b.e THEN a.e ELSE b.e))) <= 0

\* the time code parses, to a value within 0.001 of the time of ms milliseconds
ParsesBackTo(code, ms) ==
    /\ strptime(code).ok
    /\ MagnitudeLeq(FSub(TimeSeconds(strptime(code)), FloatOfMillis(ms)), FloatOfMillis(1))

\* C9: a time below 3600 s that getTimeCode turned into a sealed phrase's
\* start time (the start of its first Word token) or end time (the end of
\* its last Word token, when it is not also the first) parses, with the
\* SSML duration parser, to a value within 0.001 of that time
C9_TimeCodeRoundTrip ==
    (script # "VTT" /\ FromTranscript /\ err # "KeyError") =>
        \A k \in 1..Len(phrases) :
            /\ (/\ WordsIn(10 * (k - 1) + 1, 10 * k) # {}
                /\ items[First(WordsIn(10 * (k - 1) + 1, 10 * k))].start_time < 3600000)
               => ParsesBackTo(phrases[k].start_time,
                               items[First(WordsIn(10 * (k - 1) + 1, 10 * k))].start_time)
            /\ (/\ Cardinality(WordsIn(10 * (k - 1) + 1, 10 * k)) >= 2
                /\ items[Last(WordsIn(10 * (k - 1) + 1, 10 * k))].end_time < 3600000)
               => ParsesBackTo(phrases[k].end_time,
                               items[Last(WordsIn(10 * (k - 1) + 1, 10 * k))].end_time)

\* the time code of a time of ms milliseconds as the specification describes it:
\* 00, floor(seconds / 60), floor(seconds) mod 60, and floor(fractional
\* part * 1000) of the double, in 2, 2, 2 and 3 digits
HasStatedFields(code, ms, sep) ==
    /\ Len(code) = 12
    /\ SubSeq(code, 1, 3) = <<"0", "0", ":">>
    /\ AllDigits(SubSeq(code, 4, 5))
    /\ DecValue(SubSeq(code, 4, 5)) = ms \div 60000
    /\ code[6] = ":"
    /\ AllDigits(SubSeq(code, 7, 8))
    /\ DecValue(SubSeq(code, 7, 8)) = (ms \div 1000) % 60
    /\ code[9] = sep
    /\ AllDigits(SubSeq(code, 10, 12))
    /\ DecValue(SubSeq(code, 10, 12)) = FTrunc(FMul(FMod1(FloatOfMillis(ms)), FInt(1000)))

\* C10: the start time of a sealed phrase, which is getTimeCode of the
\* start of its first Word token, has the shape 00:MM:SS,mmm (00:MM:SS.mmm
\* in the VTT script) with MM = floor(seconds / 60), SS = floor(seconds)
\* mod 60, mmm = floor(fractional part * 1000), each field of its fixed width
C10_TimeCodeFields ==
    (FromTranscript /\ err # "KeyError") =>
        \A k \in 1..Len(phrases) :
            WordsIn(10 * (k - 1) + 1, 10 * k) # {} =>
                HasStatedFields(phrases[k].start_time,
                                items[First(WordsIn(10 * (k - 1) + 1, 10 * k))].start_time,
                                IF script = "VTT" THEN "." ELSE ",")

CommaForDot(line) == [i \in 1..Len(line) |-> IF line[i] = "." THEN "," ELSE line[i]]

\* the number of time-range lines among the first i retained lines
ArrowsUpTo(i) == Cardinality({j \in 1..i : Contains(srtlines2[j], Arrow)})

\* C11: a retained time-range line whose time codes are well formed with
\* either separator before the milliseconds is parsed: the duration loop
\* does not end in ValueError at it, and once the loop is past it the
\* duration of its pair is the one its time codes give when written with
\* commas
C11_EitherSeparator ==
    (script = "SRT2SSML" /\ pc \in {"srt_loop", "done", "crashed"}) =>
        \A i \in 1..Len(srtlines2) :
            IsTimeRange(CommaForDot(srtlines2[i])) =>
                /\ ~(pc = "crashed" /\ err = "ValueError" /\ count + 1 = i)
                /\ count >= i =>
                      /\ Len(srtlines3) >= ArrowsUpTo(i)
                      /\ srtlines3[ArrowsUpTo(i)][1] = RangeDuration(CommaForDot(srtlines2[i]))

\* the first character of the token is a letter or a digit; e-acute is a
\* letter (the ideograph U+4E09 is not counted here)
StartsAlphanumeric(word) ==
    word # <<>> /\ word[1] \in AsciiLetter \cup AsciiDigit \cup {"U+00E9"}

\* the first token verbatim, then each later token, after one space when it
\* starts with a letter or a digit
RECURSIVE StatedText(_, _)
StatedText(words, i) ==
    IF i > Len(words) THEN <<>>
    ELSE (IF i > 1 /\ StartsAlphanumeric(words[i]) THEN <<" ">> ELSE <<>>)
             \o words[i] \o StatedText(words, i + 1)

\* C12: the text line of every cue written to the SRT or the VTT file is
\* the phrase's first token verbatim followed by each later token in
\* order, with exactly one space before a token that starts with a letter
\* or a digit and nothing before any other; ['Hello', ',', 'world', '.']
\* renders as 'Hello, world.'
C12_PhraseTextSpacing ==
    /\ (script = "SRT" /\ srtfile.exists) =>
          \A k \in 1..Len(phrases) :
              srtfile.lines[4 * k - 1] = StatedText(phrases[k].words, 1)
    /\ (script = "VTT" /\ vttfile.exists) =>
          \A k \in 1..Len(phrases) :
              vttfile.lines[4 * k + 1] = StatedText(phrases[k].words, 1)
    /\ getPhraseText([start_time |-> <<>>, end_time |-> <<>>,
                      words |-> << <<"H", "e", "l", "l", "o">>, <<",">>,
                                   <<"w", "o", "r", "l", "d">>, <<".">> >>])
           = <<"H", "e", "l", "l", "o", ",", " ", "w", "o", "r", "l", "d", ".">>

\* the retained line i is a time-range line with no text line after it
NoTextAfter(i) ==
    /\ Contains(srtlines2[i], Arrow)
    /\ (i = Len(srtlines2) \/ Contains(srtlines2[i + 1], Arrow))

\* C13: when a retained time-range line has no text line after it (it is
\* the last retained line or the next one is a time-range line too), the
\* duration loop never gets past it, so no pair is made of its duration and
\* a line that is not its text, and no SSML document is written
C13_CueWithoutTextIsAnError ==
    (script = "SRT2SSML" /\ pc \in {"srt_loop", "done", "crashed"}) =>
        \A i \in 1..Len(srtlines2) :
            NoTextAfter(i) => (count < i /\ pc # "done" /\ ~ssmlfile.exists)

\* the file the running script writes
OutputFile ==
    CASE script = "SRT" -> srtfile
      [] script = "VTT" -> vttfile
      [] OTHER -> ssmlfile

\* C14: when a run has ended in an error (a token without an expected
\* field, a time code that does not parse, a cue without its text), its
\* output file is untouched: it was not created or truncated and holds
\* nothing
C14_NoOutputOnFailure ==
    pc = "crashed" => (~OutputFile.exists /\ OutputFile.lines = <<>>)

\* the token lists of the phrases from the k-th on, concatenated
RECURSIVE TokensFrom(_, _)
TokensFrom(ps, k) == IF k > Len(ps) THEN <<>> ELSE ps[k].words \o TokensFrom(ps, k + 1)

\* C15: the token lists of the sealed phrases, concatenated in output
\* order, are the first 10 * floor(n/10) token texts of the n tokens read,
\* in source order, and with the tokens of the phrase being filled they are
\* all n token texts: every token, Word or Punctuation, is appended once,
\* none is skipped, repeated, moved or put in two phrases
C15_TokensInSourceOrder ==
    (FromTranscript /\ err # "KeyError") =>
        /\ TokensFrom(phrases, 1) \o phrase.words
               = [i \in 1..Len(items) |-> items[i].content]
        /\ TokensFrom(phrases, 1)
               = [i \in 1..(10 * (Len(items) \div 10)) |-> items[i].content]

\* two phrases of words and punctuation were returned and one token dropped
C15_Witness ==
    /\ Segmented
    /\ Len(items) = 21
    /\ Len(phrases) = 2
    /\ \E i, j \in 1..10 : IsWord(items[i]) /\ ~IsWord(items[j])

\* the counter is the size of the phrase being filled, which is never full
CounterIsPhraseSize ==
    FromTranscript => (x = Len(phrase.words) /\ x \in 0..9)

\* one iteration of the loop has run in this step
Iteration == pc = "segment" /\ Len(items') = Len(items) + 1 /\ err' # "KeyError"

\* the iteration seals exactly when it appends the tenth token, and then
\* starts a fresh phrase
SealsAtTen ==
    Iteration =>
        /\ (Len(phrases') = Len(phrases) + 1) <=> (Len(phrase.words) = 9)
        /\ (Len(phrases') = Len(phrases)) <=> (Len(phrase.words) # 9)
        /\ Len(phrase.words) = 9 =>
              /\ Len(phrases'[Len(phrases')].words) = 10
              /\ phrase' = [start_time |-> <<>>, end_time |-> <<>>, words |-> <<>>]
              /\ x' = 0
              /\ nPhrase' = TRUE

\* no step changes a phrase that is already in the output
SealedIsFinal ==
    /\ Len(phrases') >= Len(phrases)
    /\ \A k \in 1..Len(phrases) : phrases'[k] = phrases[k]

\* C16: after every iteration of the segmenter loop x is the number of
\* tokens in the current phrase and 0 <= x <= 9; a phrase is appended to
\* the output exactly in the iteration in which its token count reaches 10,
\* and in that iteration the current phrase becomes a fresh phrase with no
\* tokens and empty times, x is 0 and the awaiting-start flag is set; a
\* phrase already in the output is never changed afterwards
C16_SegmenterLoopInvariant ==
    /\ []CounterIsPhraseSize
    /\ [][SealsAtTen /\ SealedIsFinal]_vars

\* the state right after the first phrase was sealed
C16_Witness ==
    /\ FromTranscript
    /\ pc = "segment"
    /\ Len(items) = 10
    /\ Len(phrases) = 1
    /\ Len(phrases[1].words) = 10
    /\ phrase = newPhrase
    /\ x = 0
    /\ nPhrase

\* the text is a time code: hh:mm:ss, a separator, three digits
IsTimeCode(text) ==
    /\ Len(text) = 12
    /\ \A i \in {1, 2, 4, 5, 7, 8, 10, 11, 12} : text[i] \in AsciiDigit
    /\ text[3] = ":" /\ text[6] = ":" /\ text[9] \in {",", "."}

\* the line has a time code on each side of the arrow
TwoTimeCodes(line) ==
    /\ Len(split(line)) >= 3
    /\ IsTimeCode(split(line)[1])
    /\ split(line)[2] = Arrow
    /\ IsTimeCode(split(line)[3])

\* C17: every sealed phrase has both its start time and its end time set
\* to a time code, whatever the mix of Word and Punctuation tokens in it;
\* so every time-range line of the SRT file and of the VTT file holds two
\* time codes, and writeSSML never fails on an operand that is not set
C17_BothTimesSet ==
    /\ (FromTranscript /\ err # "KeyError") =>
           \A k \in 1..Len(phrases) :
               /\ IsTimeCode(phrases[k].start_time)
               /\ IsTimeCode(phrases[k].end_time)
    /\ (script = "SRT" /\ pc = "done") =>
           \A k \in 1..Len(phrases) : TwoTimeCodes(srtfile.lines[4 * k - 2])
    /\ (script = "VTT" /\ pc = "done") =>
           \A k \in 1..Len(phrases) : TwoTimeCodes(vttfile.lines[4 * k])
    /\ (script = "SSML" /\ pc = "crashed" /\ err = "ValueError") =>
           \A k \in 1..Len(phrases) :
               /\ phrases[k].start_time # <<>>
               /\ phrases[k].end_time # <<>>

\* the milliseconds a time code hh:mm:ss,mmm stands for
CodeMillis(text) ==
    ((DecValue(SubSeq(text, 1, 2)) * 60 + DecValue(SubSeq(text, 4, 5))) * 60
        + DecValue(SubSeq(text, 7, 8))) * 1000
    + DecValue(SubSeq(text, 10, 12))

\* every Word token starts no later than it ends, and no Word token starts
\* before the previous one has ended
WordsTimeOrdered ==
    /\ \A i \in 1..Len(items) :
           IsWord(items[i]) => items[i].start_time <= items[i].end_time
    /\ \A i, j \in 1..Len(items) :
           (i < j /\ IsWord(items[i]) /\ IsWord(items[j]))
               => items[i].end_time <= items[j].start_time

\* C18: for Word tokens that are time-ordered, every sealed phrase with
\* both times set starts no later than it ends, of two consecutive sealed
\* phrases with times set the earlier ends no later than the later starts,
\* and no max-duration in the SSML file is negative
C18_CuesNeverRunBackwards ==
    (FromTranscript /\ err # "KeyError" /\ WordsTimeOrdered) =>
        /\ \A k \in 1..Len(phrases) :
               (IsTimeCode(phrases[k].start_time) /\ IsTimeCode(phrases[k].end_time))
                   => CodeMillis(phrases[k].start_time) <= CodeMillis(phrases[k].end_time)
        /\ \A k \in 1..(Len(phrases) - 1) :
               (IsTimeCode(phrases[k].end_time) /\ IsTimeCode(phrases[k + 1].start_time))
                   => CodeMillis(phrases[k].end_time) <= CodeMillis(phrases[k + 1].start_time)
        /\ (script = "SSML" /\ pc = "done") =>
               \A k \in 1..Len(phrases) :
                   ssmlfile.lines[k + 1][Len(ProsodyOpen) + 1] # "-"

====
